---- MODULE Spec2Model ----
(***************************************************************************)
(* A model of the Acadian Variant growth engine (acdR/src): the STAND and  *)
(* TREE classes, the statistics passes, the expand/collapse of the tree    *)
(* list, ingrowth and the yearly growth pipeline of STAND::grow.           *)
(*                                                                         *)
(* Numbers.  The code computes in double; the model computes in fixed      *)
(* point:                                                                  *)
(*   dbh, ht, hcb      thousandths of a cm / of a m  (10000 = 10 cm)       *)
(*   cr, probabilities thousandths                   (1000  = 1.0)         *)
(*   tph               whole trees per hectare                             *)
(*   ba                (dbh*dbh \div BaDiv) * tph, the code's              *)
(*                     dbh*dbh*0.00007854*tph up to a constant factor      *)
(* A division of the code is an integer division (\div) here.              *)
(***************************************************************************)
EXTENDS Integers, Sequences, FiniteSets, TLC

\* ------------------------------------------------------------------ bounds
\* longest tree list the statistics specification draws
MaxStatTrees == 3

\* ------------------------------------------------------- program constants
One == 1000             \* 1.0 of a ratio (cr, a probability, a modifier)
BaDiv == 1000000          \* scales dbh*dbh into the unit of ba
LastDbhInit == 9999000  \* last_dbh = 9999.0, the sentinel of the ranked passes
TopCohort == 100        \* the 100 trees/ha of top height
ExpandThreshold == 50   \* expand_tree_list( 50.0 )
JitterMax == 5          \* uniform_real_distribution(-0.005, 0.005)
Consumed == 2147483647  \* expand_tree_id = -1 in an unsigned long: the largest value

VARIABLES
    pc,       \* the position of the program
    stand,    \* the STAND object's fields
    trees,    \* STAND::trees, the tree list
    run,      \* the current call of STAND::grow: n_years and the loop index i
    parms,    \* the coefficient tables the equations read (read-only)
    ghost     \* history: the arguments of the constructor, the list as
              \* ingested, the list before the step under way changed it, the
              \* steps of the current year, the number of collapses, the
              \* steps in which an evaluation has raised, the list as the
              \* initialize that has just run found it

vars == <<pc, stand, trees, run, parms, ghost>>

\* ---------------------------------------------------------------- helpers
Max(a, b) == IF a >= b THEN a ELSE b
Min(a, b) == IF a <= b THEN a ELSE b

RECURSIVE SumSeq(_)
SumSeq(s) == IF s = <<>> THEN 0 ELSE Head(s) + SumSeq(Tail(s))

RECURSIVE SumOver(_, _)
\* the sum of f[i] over the finite set S of indices
SumOver(f, S) ==
    IF S = {} THEN 0
    ELSE LET i == CHOOSE x \in S : TRUE IN f[i] + SumOver(f, S \ {i})

\* ------------------------------------------------------------------- TREE
\* SPP_ID::softwood of the species table: 12 balsam fir, 97 red spruce and
\* 9991 "other softwood" are softwoods; 316 red maple, 375 paper birch and
\* 9990 "other hardwood" are hardwoods.
is_softwood(t) == t.spp \in {12, 94, 95, 97, 129, 241, 9991}

\* TREE::compute_mcw: mcw = a1 * dbh^a2 with the species' crown coefficients;
\* the tables are not part of the sources, a1 = 1/2, a2 = 1 stand for them.
compute_mcw(t) == t.dbh \div 2

\* TREE::compute_mca: 100*((pi*(mcw*mcw/4))/10000)*tph, up to a constant factor
compute_mca(t, mcw) == ((mcw * mcw) \div BaDiv) * t.tph

\* TREE::compute_attributes: ba, mcw, (lcw,) mca from dbh and tph
compute_attributes(t) ==
    [t EXCEPT !.ba = ((t.dbh * t.dbh) \div BaDiv) * t.tph,
              !.mca = compute_mca(t, compute_mcw(t))]

\* the fields of a TREE as the constructor leaves them
TREE(plot_id_t, tree_id_t, spp_t, dbh_t, ht_t, tph_t, cr_t, form_t, risk_t) ==
    compute_attributes(
        [plot_id |-> plot_id_t, tree_id |-> tree_id_t, expand_tree_id |-> 0,
         spp |-> spp_t, dbh |-> dbh_t, ht |-> ht_t, tph |-> tph_t, cr |-> cr_t,
         Form |-> form_t, Risk |-> risk_t,
         ba |-> 0, mca |-> 0,
         bal |-> 0, bal_hw |-> 0, bal_sw |-> 0,
         ccfl |-> 0, ccfl_hw |-> 0, ccfl_sw |-> 0,
         hcb |-> IF cr_t > 0 /\ ht_t > 0 THEN ((One - cr_t) * ht_t) \div One ELSE 0,
         ddbh |-> 0, dht |-> 0, dhcb |-> 0, dtph |-> 0, p_survival |-> One])

\* ------------------------------------------------------------ sort_indices
SortKey(v, i, use_dbh) == IF use_dbh THEN v[i].dbh ELSE v[i].ht

RECURSIVE SortFrom(_, _, _)
\* every order of the indices in rem with non-increasing keys
SortFrom(v, rem, use_dbh) ==
    IF rem = {} THEN {<<>>}
    ELSE LET top == CHOOSE k \in {SortKey(v, i, use_dbh) : i \in rem} :
                        \A j \in rem : SortKey(v, j, use_dbh) <= k
         IN UNION {{<<i>> \o s : s \in SortFrom(v, rem \ {i}, use_dbh)} :
                     i \in {j \in rem : SortKey(v, j, use_dbh) = top}}

\* sort_indices: std::stable_sort under the comparator >=, which is no strict
\* weak ordering; the result is descending by the key, and the order within a
\* run of equal keys is whatever the library's sort leaves: any order.
sort_indices(v, use_dbh) == SortFrom(v, DOMAIN v, use_dbh)

RECURSIVE TieOrder(_, _, _, _)
\* the descending order that leaves equal keys as they were in the list
\* (reversed = FALSE) or the other way round (reversed = TRUE)
TieOrder(v, rem, use_dbh, reversed) ==
    IF rem = {} THEN <<>>
    ELSE LET i == CHOOSE k \in rem : \A j \in rem :
                    \/ SortKey(v, j, use_dbh) < SortKey(v, k, use_dbh)
                    \/ /\ SortKey(v, j, use_dbh) = SortKey(v, k, use_dbh)
                       /\ (IF reversed THEN j <= k ELSE j >= k)
         IN <<i>> \o TieOrder(v, rem \ {i}, use_dbh, reversed)

\* the members of sort_indices the runs of grow follow: a sort that merges
\* runs leaves a group of equal keys in the order of the list or reversed
TieOrders(v, use_dbh) ==
    {TieOrder(v, DOMAIN v, use_dbh, reversed) : reversed \in BOOLEAN}

\* ------------------------------------------------- STAND::compute_ba_tph_bal
\* the slip of giving a tied tree the running total, its own group included
TieValueRunning(pending, running) == running

\* the value a tree of a tie group receives (trees[i].bal = pending)
TieValue(pending, running) == pending

\* the slip of subtracting the wrong way round
BalHwSwapped(bal, bal_sw) == bal_sw - bal

\* trees[i].bal_hw = trees[i].bal - trees[i].bal_sw
BalHw(bal, bal_sw) == bal - bal_sw

\* one pass of the loop body for tree t, with the running totals in a
BalStep(a, t) ==
    LET lt == t.dbh < a.last_dbh
        eq == t.dbh = a.last_dbh
        bal == IF lt THEN a.bal ELSE TieValue(a.pending, a.bal)
        sw == is_softwood(t)
        slt == t.dbh < a.last_sw_dbh
        seq == t.dbh = a.last_sw_dbh
        bal_sw == IF sw THEN (IF slt THEN a.bal_sw ELSE TieValue(a.pending_sw, a.bal_sw))
                  ELSE a.bal_sw
    IN [tree |-> [t EXCEPT !.bal = bal, !.bal_sw = bal_sw, !.bal_hw = BalHw(bal, bal_sw)],
        acc |-> [a EXCEPT
            !.ba = @ + t.ba,
            !.tph = @ + t.tph,
            !.bf_ba = IF t.spp = 12 THEN @ + t.ba ELSE @,
            !.pending = IF lt THEN a.bal ELSE @,
            !.bal = @ + t.ba,
            !.last_dbh = IF lt THEN t.dbh ELSE @,
            !.ba_sw = IF sw THEN @ + t.ba ELSE @,
            !.ba_hw = IF sw THEN @ ELSE @ + t.ba,
            !.pending_sw = IF sw /\ slt THEN a.bal_sw ELSE @,
            !.bal_sw = IF sw THEN @ + t.ba ELSE @,
            !.last_sw_dbh = IF sw /\ slt THEN t.dbh ELSE @,
            \* the bare "throw;" of the else branches: a diameter above the last one
            !.thrown = @ \/ ~(lt \/ eq) \/ (sw /\ ~(slt \/ seq))]]

RECURSIVE BalFold(_, _, _)
\* the loop over sort_indices(trees, true): ts the list so far, a the totals
BalFold(ts, order, a) ==
    IF order = <<>> \/ a.thrown THEN [trees |-> ts, acc |-> a]
    ELSE LET r == BalStep(a, ts[Head(order)])
         IN BalFold([ts EXCEPT ![Head(order)] = r.tree], Tail(order), r.acc)

BalAcc0 ==
    [bal_sw |-> 0, bal |-> 0, last_sw_dbh |-> LastDbhInit, last_dbh |-> LastDbhInit,
     pending_sw |-> 0, pending |-> 0,
     ba |-> 0, ba_sw |-> 0, ba_hw |-> 0, bf_ba |-> 0, tph |-> 0, thrown |-> FALSE]

\* the whole of compute_ba_tph_bal along one order of the ranking:
\* the new tree list and the stand's ba, ba_sw, ba_hw, bf_ba, tph
compute_ba_tph_bal(ts, st, order) ==
    LET r == BalFold(ts, order, BalAcc0)
    IN [trees |-> r.trees,
        stand |-> [st EXCEPT !.ba = r.acc.ba, !.ba_sw = r.acc.ba_sw,
                             !.ba_hw = r.acc.ba_hw, !.bf_ba = r.acc.bf_ba,
                             !.tph = r.acc.tph],
        thrown |-> r.acc.thrown]

\* ------------------------------------------------------ STAND::compute_ccfl
CcflStep(a, t) ==
    LET lt == t.dbh < a.last_dbh
        eq == t.dbh = a.last_dbh
        ccfl == IF lt THEN a.ccfl ELSE a.pending
        sw == is_softwood(t)
        slt == t.dbh < a.last_sw_dbh
        seq == t.dbh = a.last_sw_dbh
        ccfl_sw == IF sw THEN (IF slt THEN a.ccfl_sw ELSE a.pending_sw) ELSE a.ccfl_sw
    IN [tree |-> [t EXCEPT !.ccfl = ccfl, !.ccfl_sw = ccfl_sw, !.ccfl_hw = ccfl - ccfl_sw],
        acc |-> [a EXCEPT
            !.pending = IF lt THEN a.ccfl ELSE @,
            !.ccfl = @ + t.mca,
            !.last_dbh = IF lt THEN t.dbh ELSE @,
            !.pending_sw = IF sw /\ slt THEN a.ccfl_sw ELSE @,
            !.ccfl_sw = IF sw THEN @ + t.mca ELSE @,
            !.last_sw_dbh = IF sw /\ slt THEN t.dbh ELSE @,
            !.thrown = @ \/ ~(lt \/ eq) \/ (sw /\ ~(slt \/ seq))]]

RECURSIVE CcflFold(_, _, _)
CcflFold(ts, order, a) ==
    IF order = <<>> \/ a.thrown THEN [trees |-> ts, acc |-> a]
    ELSE LET r == CcflStep(a, ts[Head(order)])
         IN CcflFold([ts EXCEPT ![Head(order)] = r.tree], Tail(order), r.acc)

compute_ccfl(ts, order) ==
    LET r == CcflFold(ts, order,
                 [ccfl_sw |-> 0, ccfl |-> 0, last_sw_dbh |-> LastDbhInit,
                  last_dbh |-> LastDbhInit, pending_sw |-> 0, pending |-> 0,
                  thrown |-> FALSE])
    IN [trees |-> r.trees, thrown |-> r.acc.thrown]

\* -------------------------------------------------------- STAND::compute_ccf
compute_ccf(ts) == SumOver([i \in DOMAIN ts |-> ts[i].mca], DOMAIN ts)

\* ------------------------------------------------------ STAND::compute_topht
\* the slip of counting the crossing tree with its whole density
TophtPartialWhole(ht, tph, sum_tph) == ht * tph

\* what the tree that crosses the 100 trees/ha adds to sum_ht
TophtPartial(ht, tph, sum_tph) == ht * (TopCohort - sum_tph)

RECURSIVE TophtFold(_, _, _, _)
TophtFold(ts, order, sum_tph, sum_ht) ==
    IF order = <<>> THEN [sum_tph |-> sum_tph, sum_ht |-> sum_ht]
    ELSE LET t == ts[Head(order)]
         IN IF sum_tph + t.tph <= TopCohort
            THEN TophtFold(ts, Tail(order), sum_tph + t.tph, sum_ht + t.ht * t.tph)
            ELSE IF sum_tph < TopCohort
            THEN TophtFold(ts, Tail(order), TopCohort,
                           sum_ht + TophtPartial(t.ht, t.tph, sum_tph))
            ELSE TophtFold(ts, Tail(order), sum_tph, sum_ht)

\* topht along one order of the height ranking
compute_topht(ts, order) ==
    LET r == TophtFold(ts, order, 0, 0)
    IN IF r.sum_tph > 0 THEN r.sum_ht \div r.sum_tph ELSE 0

\* ------------------------------------------------------------------ STAND
\* the fields of a STAND as the constructor and the in-class initialisers
\* leave them (stand.hpp); the aggregates are written by the first
\* statistics pass before anything reads them
STAND(t_Region, t_year, t_csi, t_cdef, use_sbw_t, use_hw_t, use_thin_t, t_use_ingrowth, t_cut_point, t_MinDBH) ==
    [Region |-> t_Region, year |-> t_year, csi |-> t_csi, CDEF |-> t_cdef,
     use_sbw_mod |-> use_sbw_t, use_hw_mod |-> use_hw_t, use_thin_mod |-> use_thin_t,
     use_ingrowth |-> t_use_ingrowth, cut_point |-> t_cut_point, MinDBH |-> t_MinDBH,
     initialized |-> FALSE,
     percent_ba_removed |-> 0, ba_pre_thin |-> 0, qmd_ratio |-> 0, thin_year |-> -1,
     ccf |-> 0, ba |-> 0, ba_sw |-> 0, ba_hw |-> 0, bf_ba |-> 0, tph |-> 0,
     topht |-> 0, n_species |-> 0, average_dbh_10_sw |-> 0, average_height_sw |-> 0,
     max_tree_id |-> 0,
     ba_spp |-> <<>>, ba_grp_spp |-> <<>>, plot_species_ba |-> <<>>]

\* before a STAND is constructed, and after a construction that threw
NoStand == [Region |-> "none"]

NoRun == [n_years |-> 0, i |-> 0]
NoGhost ==
    [args |-> <<>>, input |-> <<>>, prev |-> <<>>, trace |-> <<>>, collapsed |-> 0,
     raised |-> <<>>, unexpanded |-> <<>>]
NoParms == [name |-> "none"]

\* ===================================================== the statistics passes
\* The statistics specification: a tree list drawn from bounded sets, then
\* compute_ba_tph_bal, compute_ccfl and compute_topht on it, once each.
\* <<spp, dbh, ht, tph>>: softwoods and hardwoods, tied and distinct diameters
\* and heights, densities that reach 100 trees/ha exactly, cross it or stay
\* below it, and a record whose density mortality has taken to 0
StatKinds ==
    {<<12, 10000, 8000, 30>>, <<12, 10000, 12000, 50>>, <<12, 12000, 8000, 50>>,
     <<12, 12000, 12000, 30>>, <<12, 11000, 10000, 50>>,
     <<316, 10000, 8000, 50>>, <<316, 10000, 12000, 30>>, <<316, 12000, 8000, 30>>,
     <<316, 12000, 12000, 50>>, <<316, 10000, 8000, 0>>}

StatTrees == {TREE(1, 1, k[1], k[2], k[3], k[4], 600, 1, 1) : k \in StatKinds}

StatLists == UNION {[1..n -> StatTrees] : n \in 1..MaxStatTrees}

InitStats ==
    /\ pc = "stats"
    /\ stand = STAND("ME", 0, 16000, -1, FALSE, FALSE, FALSE, FALSE, 0, 0)
    /\ trees \in StatLists
    /\ run = NoRun
    /\ parms = NoParms
    /\ ghost = NoGhost

StatsBal ==
    /\ pc = "stats"
    /\ \E order \in sort_indices(trees, TRUE) :
          LET r == compute_ba_tph_bal(trees, stand, order)
          IN /\ trees' = r.trees
             /\ stand' = r.stand
    /\ pc' = "bal"
    /\ UNCHANGED <<run, parms, ghost>>

StatsCcfl ==
    /\ pc = "bal"
    /\ \E order \in sort_indices(trees, TRUE) :
          trees' = compute_ccfl(trees, order).trees
    /\ pc' = "ccfl"
    /\ UNCHANGED <<stand, run, parms, ghost>>

StatsTopht ==
    /\ pc = "ccfl"
    /\ \E order \in sort_indices(trees, FALSE) :
          stand' = [stand EXCEPT !.topht = compute_topht(trees, order)]
    /\ pc' = "topht"
    /\ UNCHANGED <<trees, run, parms, ghost>>

NextStats == StatsBal \/ StatsCcfl \/ StatsTopht

SpecStats == InitStats /\ [][NextStats]_vars

\* ---------------------------------------------------------------- C1
\* the basal area of the trees of the list whose dbh is strictly greater than d
BaAbove(ts, d) ==
    SumOver([i \in DOMAIN ts |-> ts[i].ba], {i \in DOMAIN ts : ts[i].dbh > d})

\* C1: after compute_ba_tph_bal every tree's bal is the basal area of the trees
\* of strictly greater dbh, so two trees of equal dbh carry the same bal.
C1_BalTie ==
    pc \in {"bal", "ccfl", "topht"} =>
        /\ \A i \in DOMAIN trees : trees[i].bal = BaAbove(trees, trees[i].dbh)
        /\ \A i, j \in DOMAIN trees :
              trees[i].dbh = trees[j].dbh => trees[i].bal = trees[j].bal

\* two trees of equal dbh, and a larger tree above them, after the pass
C1_Witness ==
    /\ pc = "bal"
    /\ \E i, j, k \in DOMAIN trees :
          /\ i # j /\ trees[i].dbh = trees[j].dbh
          /\ trees[k].dbh > trees[i].dbh
          /\ trees[i].bal = trees[j].bal /\ trees[i].bal > 0

\* ---------------------------------------------------------------- C2
\* C2: after compute_ba_tph_bal every tree has bal = bal_sw + bal_hw, and of two
\* softwoods the one ranked later (no larger in dbh) has no smaller bal_sw.
C2_BalDecomposition ==
    pc \in {"bal", "ccfl", "topht"} =>
        /\ \A i \in DOMAIN trees : trees[i].bal = trees[i].bal_sw + trees[i].bal_hw
        /\ \A i, j \in DOMAIN trees :
              (is_softwood(trees[i]) /\ is_softwood(trees[j])
                   /\ trees[i].dbh >= trees[j].dbh)
                 => trees[i].bal_sw <= trees[j].bal_sw

\* two softwoods of different dbh and a hardwood, after the pass
C2_Witness ==
    /\ pc = "bal"
    /\ \E i, j, k \in DOMAIN trees :
          /\ is_softwood(trees[i]) /\ is_softwood(trees[j]) /\ ~is_softwood(trees[k])
          /\ trees[i].dbh > trees[j].dbh
          /\ trees[j].bal_sw > trees[i].bal_sw
          /\ trees[j].bal_hw > 0

\* ---------------------------------------------------------------- C3
TotalTph(ts) == SumOver([i \in DOMAIN ts |-> ts[i].tph], DOMAIN ts)

\* the density of the trees strictly taller than h
TphTaller(ts, h) ==
    SumOver([i \in DOMAIN ts |-> ts[i].tph], {i \in DOMAIN ts : ts[i].ht > h})

\* the density at height h that belongs to the tallest 100 trees/ha
CohortAt(ts, h) ==
    LET at == SumOver([i \in DOMAIN ts |-> ts[i].tph], {i \in DOMAIN ts : ts[i].ht = h})
    IN Min(at, Max(0, TopCohort - TphTaller(ts, h)))

\* the sum of height times counted density over the tallest 100 trees/ha
CohortHeightSum(ts) ==
    LET hs == {ts[i].ht : i \in DOMAIN ts}
    IN SumOver([h \in hs |-> h * CohortAt(ts, h)], hs)

\* C3: below 100 trees/ha topht is the density-weighted mean height of the whole
\* list (0 for no density); from 100 trees/ha on it is the mean over the tallest
\* 100 trees/ha, the tree that crosses 100 counted for the remainder only.
C3_TopHeight ==
    pc = "topht" =>
        LET total == TotalTph(trees)
            whole == SumOver([i \in DOMAIN trees |-> trees[i].ht * trees[i].tph],
                             DOMAIN trees)
        IN /\ total = 0 => stand.topht = 0
           /\ (0 < total /\ total < TopCohort) => stand.topht = whole \div total
           /\ total >= TopCohort => stand.topht = CohortHeightSum(trees) \div TopCohort

\* a list above 100 trees/ha with a height level counted only in part, below
\* a taller level counted in full
C3_Witness ==
    /\ pc = "topht"
    /\ TotalTph(trees) > TopCohort
    /\ \E i, j \in DOMAIN trees :
          /\ trees[i].ht > trees[j].ht
          /\ CohortAt(trees, trees[j].ht) > 0
          /\ CohortAt(trees, trees[j].ht) < trees[j].tph
    /\ stand.topht > 0

\* ================================================== tree-list scaling
\* the number of records expand_tree_list creates for t: trunc(tph/threshold)-1
\* full copies, and one more when the copies leave a remainder
NewTrees(t, threshold) == (t.tph \div threshold) - 1

HasRemainder(t, threshold) == threshold * (NewTrees(t, threshold) + 1) < t.tph

CopiesOf(t, threshold) ==
    IF t.tph > threshold
    THEN NewTrees(t, threshold) + (IF HasRemainder(t, threshold) THEN 1 ELSE 0)
    ELSE 0

\* a copy of t: expand id, jittered dbh, jittered ht when ht > 0, its density
NewTree(t, id, jitter, tph_new) ==
    compute_attributes(
        [t EXCEPT !.expand_tree_id = id,
                  !.dbh = @ + jitter[1],
                  !.ht = IF @ > 0 THEN @ + jitter[2] ELSE @,
                  !.tph = tph_new])

\* the records appended for trees[i]; jit holds one <<dbh, ht>> draw per copy
CopiesFor(t, threshold, jit) ==
    [j \in 1..CopiesOf(t, threshold) |->
        IF j <= NewTrees(t, threshold)
        THEN NewTree(t, j, jit[j], threshold)
        ELSE NewTree(t, j, jit[j], t.tph - threshold * (NewTrees(t, threshold) + 1))]

\* trees[i] itself after its copies were made: the threshold and the next id
ExpandedOriginal(t, threshold) ==
    IF t.tph > threshold
    THEN compute_attributes([t EXCEPT !.tph = threshold,
                                      !.expand_tree_id = CopiesOf(t, threshold) + 1])
    ELSE t

RECURSIVE TotalCopies(_, _)
TotalCopies(ts, threshold) ==
    IF ts = <<>> THEN 0
    ELSE CopiesOf(Head(ts), threshold) + TotalCopies(Tail(ts), threshold)

RECURSIVE Appended(_, _, _)
\* the emplace_back records in the order of the loop over i
Appended(ts, threshold, jit) ==
    IF ts = <<>> THEN <<>>
    ELSE LET c == CopiesOf(Head(ts), threshold)
         IN CopiesFor(Head(ts), threshold, SubSeq(jit, 1, c))
            \o Appended(Tail(ts), threshold, SubSeq(jit, c + 1, Len(jit)))

\* STAND::expand_tree_list; jit is the sequence of the generator's draws
expand_tree_list(ts, threshold, jit) ==
    [i \in DOMAIN ts |-> ExpandedOriginal(ts[i], threshold)]
        \o Appended(ts, threshold, jit)

\* the records the accumulator at position i takes in
GroupOf(ts, i) ==
    {k \in (i + 1)..Len(ts) :
        /\ ts[k].plot_id = ts[i].plot_id
        /\ ts[k].tree_id = ts[i].tree_id
        /\ ts[k].expand_tree_id > 0
        /\ ts[k].expand_tree_id # ts[i].expand_tree_id}

\* the slip of averaging without the weights
WeightPlain(x, tph) == x

\* the weight of a record in the sums (x *= tph)
Weight(x, tph) == x * tph

\* the accumulator after the inner loop and the averages
Accumulate(ts, i) ==
    LET g == GroupOf(ts, i) \cup {i}
        tph == SumOver([k \in g |-> ts[k].tph], g)
        dbh == SumOver([k \in g |-> Weight(ts[k].dbh, ts[k].tph)], g)
        ht == SumOver([k \in g |-> Weight(ts[k].ht, ts[k].tph)], g)
        hcb == SumOver([k \in g |-> Weight(ts[k].hcb, ts[k].tph)], g)
        cr == SumOver([k \in g |-> Weight(ts[k].cr, ts[k].tph)], g)
    IN IF tph > 0
       THEN compute_attributes(
                [ts[i] EXCEPT !.tph = tph, !.dbh = dbh \div tph, !.ht = ht \div tph,
                              !.hcb = hcb \div tph, !.cr = cr \div tph,
                              !.expand_tree_id = 0])
       ELSE [ts[i] EXCEPT !.tph = tph, !.dbh = dbh, !.ht = ht, !.hcb = hcb, !.cr = cr]

RECURSIVE UnexpandFrom(_, _)
\* the outer loop of unexpand_tree_list from position i on
UnexpandFrom(ts, i) ==
    IF i > Len(ts) THEN ts
    ELSE IF ts[i].expand_tree_id > 0
    THEN UnexpandFrom(
            [k \in DOMAIN ts |->
                IF k = i THEN Accumulate(ts, i)
                ELSE IF k \in GroupOf(ts, i)
                THEN [ts[k] EXCEPT !.expand_tree_id = Consumed, !.tph = 0]
                ELSE ts[k]],
            i + 1)
    ELSE UnexpandFrom(ts, i + 1)

HasDensity(t) == t.tph # 0

\* STAND::unexpand_tree_list: collapse, then erase the records without density
unexpand_tree_list(ts) == SelectSeq(UnexpandFrom(ts, 1), HasDensity)

\* ================================================ the growth equations
\* a product and a quotient of two ratios in thousandths
MulOne(a, b) == (a * b) \div One
DivOne(a, b) == (a * One) \div b

\* the coefficient set of a tree: the species' own or the softwood/hardwood one
ParmOf(field, t) == IF is_softwood(t) THEN field.sw ELSE field.hw

\* the guard of the thinning modifiers of diameter and survival
Thinned(st) ==
    /\ st.thin_year >= 0
    /\ st.thin_year <= st.year
    /\ st.percent_ba_removed > 0
    /\ st.qmd_ratio > 0
    /\ st.ba_pre_thin > 0

\* the curves exp(y0 + y1/..) * y2^t * t^y3 of the thinning modifiers, in
\* thousandths, for time_since_thinning 0..6 at percent_ba_removed 0.3,
\* ba_pre_thin 30 and qmd_ratio 1; later years keep the last value
CurveAt(curve, t) == curve[Min(t, Len(curve) - 1) + 1]

dDBH_thin_curve(spp) ==
    IF spp = 12 THEN <<0, 281, 450, 534, 560, 548, 514>>
    ELSE IF spp = 97 THEN <<0, 250, 460, 602, 684, 719, 721>>
    ELSE <<0>>

\* TREE::dDBH_thin: 1 + curve, constrained to 0.75 <= modifier <= 1.25
dDBH_thin(t, st) ==
    IF Thinned(st)
    THEN Max(750, Min(One + CurveAt(dDBH_thin_curve(t.spp), st.year - st.thin_year), 1250))
    ELSE One

\* exp(b7*CDEF) at CDEF = 50 for the region and the species
dDBH_sbw_ratio(Region, spp) ==
    IF Region = "ME" THEN (IF spp = 12 THEN 923 ELSE IF spp \in {95, 97} THEN 970 ELSE 401)
    ELSE (IF spp = 12 THEN 914 ELSE IF spp \in {95, 97} THEN 942 ELSE 970)

\* TREE::dDBH_sbw: dDBHb / dDBHa = exp(b7*CDEF) for the spruces and fir when
\* CDEF >= 0 (the quotient is defined: average_dbh_sw > 0 and dbh > 0)
dDBH_sbw(t, st) ==
    IF t.spp \in {12, 94, 95, 97} /\ st.CDEF >= 0
    THEN (IF st.CDEF = 0 THEN One ELSE dDBH_sbw_ratio(st.Region, t.spp))
    ELSE One

\* TREE::decode_form_and_risk
formB(t) == t.Form >= 1 /\ t.Form <= 8 /\ t.Risk >= 1 /\ t.Risk <= 4 /\ t.Form \notin {1, 3, 4, 7}
low_risk(t) == ~(t.Form >= 1 /\ t.Form <= 8 /\ t.Risk >= 1 /\ t.Risk <= 4) \/ t.Risk \in {1, 2}

\* TREE::dDBH_hw_form_risk: exp(b6b - b6a), b6b = -0.0250*formB + 0.2176*low_risk
dDBH_hw_form_risk(t) ==
    IF t.Form >= 1 /\ t.Form <= 8 /\ t.Risk >= 1 /\ t.Risk <= 4
       /\ t.spp \in {833, 371, 316, 375, 746}
    THEN (IF formB(t) THEN (IF low_risk(t) THEN 975 ELSE 785)
          ELSE (IF low_risk(t) THEN One ELSE 804))
    ELSE One

\* TREE::dDBH: exp(..) of the species' coefficients, a positive number, times
\* the three modifiers, whatever the modifier flags
dDBH(t, st, pm) ==
    MulOne(MulOne(MulOne(ParmOf(pm.ddbh, t), dDBH_thin(t, st)), dDBH_sbw(t, st)),
           dDBH_hw_form_risk(t))

dHT_thin_curve(spp) ==
    IF spp = 12 THEN <<189, 199, 209, 220, 232>>
    ELSE IF spp = 97 THEN <<195, 226, 263, 304, 353>>
    ELSE <<0>>

\* TREE::dHT_thin: 1 - curve within five years of the thinning, constrained
dHT_thin(t, st) ==
    IF st.thin_year >= 0 /\ st.thin_year <= st.year /\ (st.year - st.thin_year) < 5
    THEN Max(750, Min(One - CurveAt(dHT_thin_curve(t.spp), st.year - st.thin_year), 1250))
    ELSE One

\* TREE::dHT_sbw: dHTb / dHTa = exp(b6*CDEF), at CDEF = 50
dHT_sbw(t, st) ==
    IF t.spp \in {12, 94, 95, 97} /\ st.CDEF >= 0
    THEN (IF st.CDEF = 0 THEN One
          ELSE IF t.spp = 12 THEN 919 ELSE IF t.spp = 94 THEN 1005 ELSE 932)
    ELSE One

\* TREE::dHT: the species' height increment times the two modifiers
dHT(t, st, pm) == MulOne(MulOne(ParmOf(pm.dht, t), dHT_thin(t, st)), dHT_sbw(t, st))

dHCB_thin_curve(spp) ==
    IF spp = 12 THEN <<0, 297, 246, 200, 162, 131, 106>>
    ELSE <<0, 161, 271, 331, 354, 353, 335>>

\* TREE::dHCB_thin: min(|1 - curve|, 1) for balsam fir and red spruce
dHCB_thin(t, st) ==
    IF st.thin_year >= 0 /\ st.thin_year <= st.year /\ t.spp \in {12, 97}
    THEN LET m == One - CurveAt(dHCB_thin_curve(t.spp), st.year - st.thin_year)
         IN Min(IF m < 0 THEN -m ELSE m, One)
    ELSE One

\* TREE::dHCB: p0 * ((ht - hcb) + _dht^p1) * ... * thin_modifier, with p1 = 1
\* and the other factors 1
dHCB(t, st, pm) ==
    MulOne(MulOne(ParmOf(pm.dhcb, t), (t.ht - t.hcb) + t.dht), dHCB_thin(t, st))

\* TREE::surv_sbw: (1 - mort_b)/(1 - mort_a) = exp(-e^x (e^(b8*CDEF) - 1)), at
\* most 1 as b8 > 0; 989 stands for its value at CDEF = 50; constrained to <= 1
surv_sbw(t, st) ==
    Min(IF t.spp \in {12, 94, 95, 97} /\ st.CDEF >= 0
        THEN (IF st.CDEF = 0 THEN One ELSE 989)
        ELSE One,
        One)

\* TREE::surv_hw: mort_b / mort_a of two logistic values, b5 >= 0, is at least
\* 1 (1200 stands for it when b5 > 0); constrained to <= 1
surv_hw(t) ==
    Min(IF t.Form >= 1 /\ t.Form <= 8 /\ t.spp \in {833, 371, 316, 375, 746}
        THEN (IF t.Form \in {1, 2} THEN 1200 ELSE One)
        ELSE One,
        One)

surv_thin_curve(spp) ==
    IF spp = 12 THEN <<0, 4287, 5150, 4848, 4131, 3332, 2597>>
    ELSE IF spp = 97 THEN <<0, 495, 537, 484, 405, 324, 253>>
    ELSE <<0>>

\* TREE::surv_thin: x = 1/surv_thin_modifier, returned when x <= 1
surv_thin(t, st) ==
    LET surv_thin_modifier ==
            IF Thinned(st)
            THEN One + CurveAt(surv_thin_curve(t.spp), st.year - st.thin_year)
            ELSE One
        x == DivOne(One, surv_thin_modifier)
    IN IF x <= One THEN x ELSE One

\* the thinning factor in _p_survival *= sbw * (1.0/thin_modifier) * hw
ThinFactor(thin_modifier) == DivOne(One, thin_modifier)

\* TREE::survival_prob: the species' survival, a probability, times the
\* modifiers the flags switch on
survival_prob(t, st, pm) ==
    LET sbw_modifier == IF st.use_sbw_mod THEN surv_sbw(t, st) ELSE One
        hw_modifier == IF st.use_hw_mod THEN surv_hw(t) ELSE One
        thin_modifier == IF st.use_thin_mod THEN surv_thin(t, st) ELSE One
    IN MulOne(MulOne(MulOne(ParmOf(pm.surv, t), sbw_modifier), ThinFactor(thin_modifier)),
              hw_modifier)

\* STAND::mort_sbw: bb/aa, 1 for CDEF < 0; the quotient of the two logistic
\* values is at least 1 (b2, b4 >= 0): 1500 and 1250 stand for it with and
\* without balsam fir basal area
mort_sbw(st) ==
    IF st.CDEF < 0 THEN One
    ELSE IF st.CDEF = 0 THEN One
    ELSE IF st.bf_ba > 0 THEN 1500 ELSE 1250

mort_thin_curve == <<0, 102, 169, 176, 153, 120, 88>>

\* STAND::mort_thin: 1 + curve after a thinning
mort_thin(st) ==
    IF Thinned(st) THEN One + CurveAt(mort_thin_curve, st.year - st.thin_year) ELSE One

\* tph -= (_dtph <= tph) ? _dtph : tph
DensityLoss(dtph, tph) == IF dtph <= tph THEN dtph ELSE tph

\* if( hcb > ht ) hcb = ht
ClampHcb(hcb, ht) == IF hcb > ht THEN ht ELSE hcb

\* the slip of leaving the increments as they are
resetNothing(t) == t

\* TREE::reset
reset(t) == [t EXCEPT !.ddbh = 0, !.dht = 0, !.dhcb = 0, !.dtph = 0, !.p_survival = One]

\* the slip of taking an increment off
GrownSlip(x, dx) == x - dx

\* dbh += _ddbh; ht += _dht
Grown(x, dx) == x + dx

\* TREE::apply_growth_mortality; cr = (ht - hcb)/ht is not a number for
\* ht = 0, which the -1 stands for
apply_growth_mortality(t) ==
    LET dbh == Grown(t.dbh, t.ddbh)
        ht == Grown(t.ht, t.dht)
        hcb == ClampHcb(t.hcb + t.dhcb, ht)
        cr == IF ht # 0 THEN DivOne(ht - hcb, ht) ELSE -1
        tph == t.tph - DensityLoss(t.dtph, t.tph)
    IN reset(compute_attributes(
            [t EXCEPT !.dbh = dbh, !.ht = ht, !.hcb = hcb, !.cr = cr, !.tph = tph]))

\* -------------------------------------------- the stand's passes over the list
\* STAND::diameter_growth
diameter_growth(ts, st, pm) == [i \in DOMAIN ts |-> [ts[i] EXCEPT !.ddbh = dDBH(ts[i], st, pm)]]

\* STAND::height_growth
height_growth(ts, st, pm) == [i \in DOMAIN ts |-> [ts[i] EXCEPT !.dht = dHT(ts[i], st, pm)]]

\* STAND::crown_recession
crown_recession(ts, st, pm) == [i \in DOMAIN ts |-> [ts[i] EXCEPT !.dhcb = dHCB(ts[i], st, pm)]]

\* set_dtph( tph * (1.0 - get_survival()) * sbw_modifier * thin_modifier )
Dtph(t, p, sbw_modifier, thin_modifier) ==
    MulOne(MulOne(MulOne(t.tph, One - p), sbw_modifier), thin_modifier)

\* STAND::survival: the stand-level modifiers, compute_survival_prob, set_dtph
survival(ts, st, pm) ==
    LET sbw_modifier == IF st.use_sbw_mod THEN mort_sbw(st) ELSE One
        thin_modifier == IF st.use_thin_mod THEN mort_thin(st) ELSE One
    IN [i \in DOMAIN ts |->
           LET p == survival_prob(ts[i], st, pm)
           IN [ts[i] EXCEPT !.p_survival = p,
                            !.dtph = Dtph(ts[i], p, sbw_modifier, thin_modifier)]]

\* ============================================================ initialize
\* TREE::ht_pred: a height is imputed for ht <= 0 only; 1.37 m and a positive
\* term of dbh, bal and ccf, for which half the diameter stands
ht_pred(t) == IF t.ht <= 0 THEN [t EXCEPT !.ht = 1370 + (t.dbh \div 2)] ELSE t

\* TREE::hcb_pred: hcb = ht/(1 + exp(..)), a share of the height for which the
\* half stands; cr = (ht - hcb)/ht
hcb_pred(t) ==
    LET hcb == t.ht \div 2
    IN [t EXCEPT !.hcb = hcb, !.cr = IF t.ht # 0 THEN DivOne(t.ht - hcb, t.ht) ELSE -1]

\* the body of the loop of STAND::predict_hcb
predict_hcb(t) ==
    IF t.hcb = 0
    THEN (IF t.cr > 0
          THEN [t EXCEPT !.hcb = MulOne(One - t.cr, t.ht)]
          ELSE LET u == hcb_pred(t)
               IN [u EXCEPT !.cr = IF u.ht # 0 THEN One - DivOne(u.hcb, u.ht) ELSE -1])
    ELSE t

\* the slip of taking the id of the first record for the largest
find_max_tree_idFirst(ts) == IF ts = <<>> THEN 0 ELSE ts[1].tree_id

\* STAND::find_max_tree_id
find_max_tree_id(ts) ==
    IF ts = <<>> THEN 0
    ELSE CHOOSE m \in {ts[i].tree_id : i \in DOMAIN ts} :
            \A i \in DOMAIN ts : ts[i].tree_id <= m

\* STAND::compute_n_species
compute_n_species(ts) == Cardinality({ts[i].spp : i \in DOMAIN ts})

\* STAND::compute_tree_statistics, the averages the modifiers read
compute_tree_statistics(ts, st) ==
    LET sw == {i \in DOMAIN ts : is_softwood(ts[i])}
        t_tph_sw == SumOver([i \in sw |-> ts[i].tph], sw)
        sw10 == {i \in sw : ts[i].dbh >= 10000}
    IN [st EXCEPT
          !.average_dbh_10_sw =
              IF t_tph_sw > 0
              THEN SumOver([i \in sw10 |-> ts[i].dbh * ts[i].tph], sw10) \div t_tph_sw
              ELSE 0,
          !.average_height_sw =
              IF t_tph_sw > 0
              THEN SumOver([i \in sw |-> ts[i].ht * ts[i].tph], sw) \div t_tph_sw
              ELSE 0]

\* STAND::initialize along the draws jit of the generator and the orders
\* o1, o2 (by diameter) and o3 (by height) the three rankings take
initialize(ts, st, jit, o1, o2, o3) ==
    LET e == expand_tree_list(ts, ExpandThreshold, jit)
        st1 == [st EXCEPT !.max_tree_id = find_max_tree_id(e),
                          !.n_species = compute_n_species(e),
                          !.ccf = compute_ccf(e)]
        b == compute_ba_tph_bal(e, st1, o1)
        c == compute_ccfl(b.trees, o2)
        h == [i \in DOMAIN c.trees |-> ht_pred(c.trees[i])]
        st2 == [b.stand EXCEPT !.topht = compute_topht(h, o3)]
        q == [i \in DOMAIN h |-> predict_hcb(h[i])]
    IN [trees |-> q,
        stand |-> [compute_tree_statistics(q, st2) EXCEPT !.initialized = TRUE]]

\* the height ranking of the list after expansion and ht_pred
HeightsImputed(ts) == [i \in DOMAIN ts |-> ht_pred(ts[i])]

\* ============================================================== ingrowth
\* STAND::ingrowth: IPH = exp(eta) * PI for cut_point 0, else exp(eta) when
\* PI >= cut_point and 0 otherwise; 38 trees/ha and 0.635 stand for exp(eta)
\* and PI. With ba = 0 the ratio ba_hw/ba is not a number and iph > 0.0 fails.
ingrowth(st) ==
    IF st.ba = 0 THEN 0
    ELSE IF st.cut_point = 0 THEN MulOne(38, 635)
    ELSE IF 635 >= st.cut_point THEN 38 ELSE 0

\* the cross_walk table of the ingrowth species groups
cross_walk(spp) ==
    IF spp \in {375, 371} THEN 379
    ELSE IF spp \in {95, 94} THEN 97
    ELSE spp

InCrossWalk(spp) ==
    spp \in {531, 746, 318, 241, 379, 375, 371, 12, 316, 97, 95, 94, 129, 9990, 9991}

\* the key a tree's basal area is booked under
SppKey(t) == IF InCrossWalk(t.spp) THEN t.spp ELSE IF is_softwood(t) THEN 9991 ELSE 9990

MapGet(m, k) == IF k \in DOMAIN m THEN m[k] ELSE 0

GrpKey(t) == cross_walk(SppKey(t))
PlotSppKey(t) == <<t.plot_id, SppKey(t)>>

\* m[keys[i]] += ts[i].ba for every tree of ts, on top of what m holds
MapAddAll(m, ts, keys) ==
    [k \in DOMAIN m \cup {keys[i] : i \in DOMAIN ts} |->
        LET S == {i \in DOMAIN ts : keys[i] = k}
        IN MapGet(m, k) + SumOver([i \in S |-> ts[i].ba], S)]

\* STAND::build_ba_spp_map
build_ba_spp_map(ts, st) ==
    [st EXCEPT !.ba_spp = MapAddAll(@, ts, [i \in DOMAIN ts |-> SppKey(ts[i])]),
               !.ba_grp_spp = MapAddAll(@, ts, [i \in DOMAIN ts |-> GrpKey(ts[i])]),
               !.plot_species_ba =
                   MapAddAll(@, ts, [i \in DOMAIN ts |-> PlotSppKey(ts[i])])]

\* 1/(1 + exp(-percent)) of a species group, between 0 and 1 and rising with
\* the group's share pba of the basal area: the line between its values at
\* pba = 0 and pba = 1 (ba 10, csi 16, MinDBH 8) stands for it
GroupPercent(grp, pba) ==
    LET lin == IF grp = 12 THEN 77 + MulOne(495, pba)
               ELSE IF grp = 316 THEN 192 + MulOne(390, pba)
               ELSE 100 + MulOne(400, pba)
    IN Max(1, Min(lin, One - 1))

\* the slip of allocating the percents as they are, not divided by their total
NormalizeNone(percent, total_percent, IPH) == (percent * IPH) \div One

\* sgp /= total_percent; sgp *= IPH
Normalize(percent, total_percent, IPH) == (percent * IPH) \div total_percent

\* the density allocated to a species group: its percent over the total, of IPH
GroupIngrowth(st, grp, IPH) ==
    LET G == DOMAIN st.ba_grp_spp
        pct == [g \in G |-> GroupPercent(g, ((st.ba_grp_spp[g] * 100) \div st.ba) * 10)]
    IN Normalize(pct[grp], SumOver(pct, G), IPH)

\* spp_ingrowth * plot_spp_percent of a plot and a species key
PlotIngrowth(st, plot, spp, IPH) ==
    (GroupIngrowth(st, cross_walk(spp), IPH) * MapGet(st.plot_species_ba, <<plot, spp>>))
        \div st.ba_grp_spp[cross_walk(spp)]

\* if( plot_spp_percent > 0.0 ): psba[spp] / sba is positive
SharePositive(psba, sba) == sba > 0 /\ psba > 0

RECURSIVE IngrowthLoop(_, _, _, _, _)
\* the two loops of ingrowth_composition along the iteration order pairs of
\* the (species, plot) combinations; id the value of max_tree_id
IngrowthLoop(ts, st, IPH, pairs, id) ==
    IF pairs = <<>> THEN [trees |-> ts, max_tree_id |-> id]
    ELSE LET spp == Head(pairs)[1]
             plot == Head(pairs)[2]
         IN IF SharePositive(MapGet(st.plot_species_ba, <<plot, spp>>), st.ba_spp[spp])
            THEN IngrowthLoop(
                    Append(ts, TREE(plot, id + 1, spp, st.MinDBH, 0,
                                    PlotIngrowth(st, plot, spp, IPH), 0, 0, 0)),
                    st, IPH, Tail(pairs), id + 1)
            ELSE IngrowthLoop(ts, st, IPH, Tail(pairs), id)

\* STAND::ingrowth_composition
ingrowth_composition(ts, st, IPH, pairs) ==
    LET r == IngrowthLoop(ts, st, IPH, pairs, st.max_tree_id)
    IN [trees |-> r.trees, stand |-> [st EXCEPT !.max_tree_id = r.max_tree_id]]

RECURSIVE Ascending(_)
\* the keys of S from the smallest on
Ascending(S) ==
    IF S = {} THEN <<>>
    ELSE LET m == CHOOSE x \in S : \A y \in S : x <= y
         IN <<m>> \o Ascending(S \ {m})

Reversed(o) == [i \in DOMAIN o |-> o[Len(o) + 1 - i]]

\* the orders the iteration over an unordered_map of the keys S is followed
\* in: the standard leaves the order open, two orders stand for it
Orders(S) == {Ascending(S), Reversed(Ascending(S))}

RECURSIVE Cross(_, _)
\* the nested iteration: for each species of so, each plot of po
Cross(so, po) ==
    IF so = <<>> THEN <<>>
    ELSE [j \in DOMAIN po |-> <<Head(so), po[j]>>] \o Cross(Tail(so), po)

\* the orders the iteration over the two unordered maps can take
IterationOrders(st) ==
    {Cross(so, po) : so \in Orders(DOMAIN st.ba_spp),
                     po \in Orders({k[1] : k \in DOMAIN st.plot_species_ba})}

\* ===================================================== the growth run
MaxYears == 2           \* the largest n_years of a call of grow
MaxTrees == 2           \* the largest number of input records

\* stand-ins for the coefficient tables of the species, softwood and hardwood:
\* the diameter increment exp(..) is positive, the height increment and the
\* crown recession rate are not negative, the survival is a probability
ParmTables ==
    {[name |-> "vigorous",
      ddbh |-> [sw |-> 300, hw |-> 200], dht |-> [sw |-> 200, hw |-> 100],
      dhcb |-> [sw |-> 50, hw |-> 50], surv |-> [sw |-> 800, hw |-> One]],
     [name |-> "declining",
      ddbh |-> [sw |-> 1, hw |-> 100], dht |-> [sw |-> 0, hw |-> 50],
      dhcb |-> [sw |-> 0, hw |-> 900], surv |-> [sw |-> 200, hw |-> 500]]}

\* the calls of the constructor: Region, csi, CDEF, use_sbw, use_hw, use_thin,
\* use_ingrowth, cut_point, and whether the caller records a thinning
StandKinds ==
    {<<"ME", 16000, -1, FALSE, FALSE, FALSE, FALSE, 0, FALSE>>,
     <<"ME", 16000, 50, FALSE, FALSE, FALSE, FALSE, 0, TRUE>>,
     <<"ME", 16000, 50, TRUE, TRUE, TRUE, FALSE, 0, TRUE>>,
     <<"ME", 16000, -1, TRUE, TRUE, TRUE, FALSE, 0, FALSE>>,
     <<"ME", 16000, -1, FALSE, FALSE, TRUE, FALSE, 0, TRUE>>,
     <<"NB", 16000, 50, TRUE, FALSE, FALSE, FALSE, 0, FALSE>>,
     <<"ME", 16000, 0, FALSE, TRUE, FALSE, FALSE, 0, FALSE>>,
     <<"ME", 16000, -1, FALSE, FALSE, FALSE, TRUE, 0, FALSE>>,
     <<"NB", 16000, 50, TRUE, TRUE, TRUE, TRUE, 0, FALSE>>,
     <<"ME", 16000, -1, FALSE, FALSE, FALSE, TRUE, 900, FALSE>>,
     <<"XX", 16000, -1, FALSE, FALSE, FALSE, FALSE, 0, FALSE>>,
     <<"ME", 0, -1, FALSE, FALSE, FALSE, FALSE, 0, FALSE>>,
     <<"NB", -1000, -1, FALSE, FALSE, FALSE, TRUE, 0, FALSE>>,
     <<"", 0, -1, FALSE, FALSE, FALSE, FALSE, 0, FALSE>>}

\* the input records: plot, spp, dbh, ht, tph, cr, form, risk
TreeKinds ==
    <<<<1, 12, 10000, 8000, 40, 600, 1, 1>>,
      <<1, 316, 12000, 10000, 30, 500, 2, 3>>,
      <<2, 12, 10000, 9000, 70, 400, 1, 1>>>>

\* the choices of n kinds, in the order of the table
KindChoices(kinds, n) ==
    {k \in [1..n -> DOMAIN kinds] : \A i \in 1..(n - 1) : k[i] <= k[i + 1]}

\* the lists the caller ingests: tree ids 1, 2, .. in the order of the records
TreeLists ==
    UNION {{[i \in 1..n |->
                LET r == TreeKinds[k[i]]
                IN TREE(r[1], i, r[2], r[3], r[4], r[5], r[6], r[7], r[8])] :
                k \in KindChoices(TreeKinds, n)} : n \in 1..MaxTrees}

\* the draws of the generator for one copy, <<dbh, ht>>: the engine is seeded
\* by default, so a build draws one fixed sequence out of [-0.005, 0.005); the
\* ends and the middle of the range stand for the values it may hold
JitterAll ==
    {<<-JitterMax, -JitterMax>>, <<0, 0>>, <<JitterMax, -JitterMax>>,
     <<JitterMax, JitterMax>>}

\* the draws followed through the years of a growth run
JitterSome == {<<0, 0>>, <<JitterMax, -JitterMax>>}

Init ==
    /\ pc = "start"
    /\ stand = NoStand
    /\ trees = <<>>
    /\ run = NoRun
    /\ parms \in ParmTables
    /\ ghost = NoGhost

\* if( Region != "ME" && Region != "NB" )
InvalidRegion(Region) == Region # "ME" /\ Region # "NB"

\* the slip of accepting a site index of 0
InvalidCsiNegative(csi) == csi < 0

\* if( csi <= 0.0 )
InvalidCsi(csi) == csi <= 0

\* STAND s( .. ) in the caller's try block, and the thinning data the caller
\* writes into the public members; the constructor throws invalid_argument
Construct ==
    /\ pc = "start"
    /\ \E k \in StandKinds :
        /\ ghost' = [ghost EXCEPT !.args = k]
        /\ IF InvalidRegion(k[1])
           THEN pc' = "invalid_argument" /\ UNCHANGED stand
           ELSE IF InvalidCsi(k[2])
           THEN pc' = "invalid_argument" /\ UNCHANGED stand
           ELSE
             /\ pc' = "constructed"
             /\ stand' = IF k[9]
                         THEN [STAND(k[1], 1, k[2], k[3], k[4], k[5], k[6], k[7], k[8], 8000)
                                 EXCEPT !.percent_ba_removed = 300, !.ba_pre_thin = 30,
                                        !.qmd_ratio = One, !.thin_year = 0]
                         ELSE STAND(k[1], 1, k[2], k[3], k[4], k[5], k[6], k[7], k[8], 8000)
    /\ UNCHANGED <<trees, run, parms>>

\* the caller's loop of TREE t( .. ); s.trees.emplace_back( t )
Ingest ==
    /\ pc = "constructed"
    /\ \E ts \in TreeLists :
        /\ trees' = ts
        /\ ghost' = [ghost EXCEPT !.input = ts]
    /\ pc' = "ready"
    /\ UNCHANGED <<stand, run, parms>>

\* the statements of one year of STAND::grow, each named by the call it makes
ProgramOrder ==
    <<"ingrowth", "diameter_growth", "height_growth", "crown_recession", "survival",
      "apply_growth_mortality", "compute_ccf", "compute_ba_tph_bal", "compute_ccfl",
      "compute_topht", "compute_tree_statistics", "compute_sdi_rd", "year">>

\* the slip of estimating the crown recession before the height growth
ProgramOrderSlip ==
    <<"ingrowth", "diameter_growth", "crown_recession", "height_growth", "survival",
      "apply_growth_mortality", "compute_ccf", "compute_ba_tph_bal", "compute_ccfl",
      "compute_topht", "compute_tree_statistics", "compute_sdi_rd", "year">>

StepAfterIn(order, step) ==
    order[(CHOOSE i \in DOMAIN order : order[i] = step) + 1]

StepAfterSlip(step) == StepAfterIn(ProgramOrderSlip, step)

\* the statement that follows step in the body of the loop
StepAfter(step) == StepAfterIn(ProgramOrder, step)

Did(step) == [ghost EXCEPT !.trace = Append(@, step)]

\* s.grow( periods ): the call, and if( !initialized )
GrowEnter(N) ==
    /\ pc = "ready"
    /\ \E n \in N : run' = [n_years |-> n, i |-> 0]
    /\ pc' = IF stand.initialized THEN "loop" ELSE "initialize"
    /\ UNCHANGED <<stand, trees, parms, ghost>>

\* initialize(), at the start of grow and after an ingrowth; an empty list
\* makes expand_tree_list return false and initialize throw
Initialize(J) ==
    /\ pc \in {"initialize", "initialize_ingrowth"}
    /\ IF trees = <<>>
       THEN pc' = "runtime_error" /\ UNCHANGED <<stand, trees, ghost>>
       ELSE /\ ghost' = [ghost EXCEPT !.unexpanded = trees]
            /\ \E jit \in [1..TotalCopies(trees, ExpandThreshold) -> J] :
                LET e == expand_tree_list(trees, ExpandThreshold, jit)
                IN \E o1 \in TieOrders(e, TRUE), o2 \in TieOrders(e, TRUE),
                      o3 \in TieOrders(HeightsImputed(e), FALSE) :
                       LET r == initialize(trees, stand, jit, o1, o2, o3)
                       IN trees' = r.trees /\ stand' = r.stand
            /\ pc' = IF pc = "initialize" THEN "loop" ELSE "diameter_growth"
    /\ UNCHANGED <<run, parms>>

\* the slip of running the year of i = n_years too
MoreYearsSlip(i, n_years) == i <= n_years

\* i < n_years
MoreYears(i, n_years) == i < n_years

\* for( int i = 0; i < n_years; i++ ) and if( use_ingrowth )
LoopTest ==
    /\ pc = "loop"
    /\ IF MoreYears(run.i, run.n_years)
       THEN /\ pc' = IF stand.use_ingrowth THEN "ingrowth" ELSE StepAfter("ingrowth")
            /\ ghost' = [ghost EXCEPT !.trace = <<>>, !.unexpanded = <<>>]
       ELSE pc' = "unexpand" /\ ghost' = [ghost EXCEPT !.unexpanded = <<>>]
    /\ UNCHANGED <<stand, trees, run, parms>>

\* auto iph = ingrowth( GNLS ); if( iph > 0.0 ) build_ba_spp_map();
\* ingrowth_composition( iph ); initialize() comes as the next step
Ingrowth ==
    /\ pc = "ingrowth"
    /\ LET iph == ingrowth(stand)
       IN IF iph > 0
          THEN LET st == build_ba_spp_map(trees, stand)
               IN /\ \E pairs \in IterationOrders(st) :
                        LET r == ingrowth_composition(trees, st, iph, pairs)
                        IN trees' = r.trees /\ stand' = r.stand
                  /\ pc' = "initialize_ingrowth"
          ELSE /\ pc' = StepAfter("ingrowth")
               /\ UNCHANGED <<stand, trees>>
    /\ ghost' = [Did("ingrowth") EXCEPT !.prev = trees]
    /\ UNCHANGED <<run, parms>>

DiameterGrowth ==
    /\ pc = "diameter_growth"
    /\ trees' = diameter_growth(trees, stand, parms)
    /\ ghost' = [Did(pc) EXCEPT !.prev = trees, !.unexpanded = <<>>]
    /\ pc' = StepAfter(pc)
    /\ UNCHANGED <<stand, run, parms>>

HeightGrowth ==
    /\ pc = "height_growth"
    /\ trees' = height_growth(trees, stand, parms)
    /\ ghost' = Did(pc)
    /\ pc' = StepAfter(pc)
    /\ UNCHANGED <<stand, run, parms>>

CrownRecession ==
    /\ pc = "crown_recession"
    /\ trees' = crown_recession(trees, stand, parms)
    /\ ghost' = Did(pc)
    /\ pc' = StepAfter(pc)
    /\ UNCHANGED <<stand, run, parms>>

Survival ==
    /\ pc = "survival"
    /\ trees' = survival(trees, stand, parms)
    /\ ghost' = Did(pc)
    /\ pc' = StepAfter(pc)
    /\ UNCHANGED <<stand, run, parms>>

\* STAND::apply_growth_mortality
ApplyGrowthMortality ==
    /\ pc = "apply_growth_mortality"
    /\ trees' = [i \in DOMAIN trees |-> apply_growth_mortality(trees[i])]
    /\ ghost' = Did(pc)
    /\ pc' = StepAfter(pc)
    /\ UNCHANGED <<stand, run, parms>>

ComputeCcf ==
    /\ pc = "compute_ccf"
    /\ stand' = [stand EXCEPT !.ccf = compute_ccf(trees)]
    /\ ghost' = Did(pc)
    /\ pc' = StepAfter(pc)
    /\ UNCHANGED <<trees, run, parms>>

ComputeBaTphBal ==
    /\ pc = "compute_ba_tph_bal"
    /\ \E order \in TieOrders(trees, TRUE) :
          LET r == compute_ba_tph_bal(trees, stand, order)
          IN trees' = r.trees /\ stand' = r.stand
    /\ ghost' = Did(pc)
    /\ pc' = StepAfter(pc)
    /\ UNCHANGED <<run, parms>>

ComputeCcfl ==
    /\ pc = "compute_ccfl"
    /\ \E order \in TieOrders(trees, TRUE) :
          trees' = compute_ccfl(trees, order).trees
    /\ ghost' = Did(pc)
    /\ pc' = StepAfter(pc)
    /\ UNCHANGED <<stand, run, parms>>

ComputeTopht ==
    /\ pc = "compute_topht"
    /\ \E order \in TieOrders(trees, FALSE) :
          stand' = [stand EXCEPT !.topht = compute_topht(trees, order)]
    /\ ghost' = Did(pc)
    /\ pc' = StepAfter(pc)
    /\ UNCHANGED <<trees, run, parms>>

ComputeTreeStatistics ==
    /\ pc = "compute_tree_statistics"
    /\ stand' = compute_tree_statistics(trees, stand)
    /\ ghost' = Did(pc)
    /\ pc' = StepAfter(pc)
    /\ UNCHANGED <<trees, run, parms>>

\* compute_sdi_rd writes rd and rd_10, which no step of the run reads
ComputeSdiRd ==
    /\ pc = "compute_sdi_rd"
    /\ ghost' = Did(pc)
    /\ pc' = StepAfter(pc)
    /\ UNCHANGED <<stand, trees, run, parms>>

\* year++ and the i++ of the loop
AdvanceYear ==
    /\ pc = "year"
    /\ stand' = [stand EXCEPT !.year = @ + 1]
    /\ run' = [run EXCEPT !.i = @ + 1]
    /\ ghost' = Did(pc)
    /\ pc' = "loop"
    /\ UNCHANGED <<trees, parms>>

\* unexpand_tree_list() after the loop, and the return to the caller
Unexpand ==
    /\ pc = "unexpand"
    /\ trees' = unexpand_tree_list(trees)
    /\ ghost' = [ghost EXCEPT !.collapsed = @ + 1, !.prev = trees]
    /\ pc' = "done"
    /\ UNCHANGED <<stand, run, parms>>

Year ==
    \/ LoopTest \/ Ingrowth \/ DiameterGrowth \/ HeightGrowth \/ CrownRecession
    \/ Survival \/ ApplyGrowthMortality \/ ComputeCcf \/ ComputeBaTphBal
    \/ ComputeCcfl \/ ComputeTopht \/ ComputeTreeStatistics \/ ComputeSdiRd
    \/ AdvanceYear

Next ==
    \/ Construct \/ Ingest \/ GrowEnter(0..MaxYears) \/ Initialize(JitterSome)
    \/ Year \/ Unexpand

Spec == Init /\ [][Next]_vars

\* ------------------------------------------- the scaling alone: grow( 0 )
MaxScaleTrees == 2      \* the largest number of input records of a grow( 0 )

\* records of one plot: spp, dbh, ht, tph, cr; the last is a sapling of 1.5 m
\* with a short crown
ScaleKinds ==
    <<<<12, 10000, 8000, 40, 600>>, <<12, 10000, 8000, 120, 600>>,
      <<316, 12000, 10000, 70, One>>, <<97, 11000, 9000, 100, 350>>,
      <<316, 12000, 10000, 50, 500>>, <<12, 1000, 1500, 70, 100>>>>

ScaleLists ==
    UNION {{[i \in 1..n |->
                LET r == ScaleKinds[k[i]]
                IN TREE(1, i, r[1], r[2], r[3], r[4], r[5], 1, 1)] :
                k \in KindChoices(ScaleKinds, n)} : n \in 1..MaxScaleTrees}

InitScale ==
    /\ pc = "ready"
    /\ stand = STAND("ME", 1, 16000, -1, FALSE, FALSE, FALSE, FALSE, 0, 8000)
    /\ trees \in ScaleLists
    /\ run = NoRun
    /\ parms = NoParms
    /\ ghost = [NoGhost EXCEPT !.input = trees]

NextScale == GrowEnter({0}) \/ Initialize(JitterAll) \/ LoopTest \/ Unexpand

SpecScale == InitScale /\ [][NextScale]_vars

\* ------------------------- TREE::apply_growth_mortality on any increments
\* the tree before the call: height 8 m or 0.3 m, crown ratio 0.6 or 1
ApplyTrees == {TREE(1, 1, 12, 10000, ht, 40, cr, 1, 1) : ht \in {8000, 300}, cr \in {600, One}}

\* the increments a call finds in _ddbh, _dht, _dhcb and _dtph
ApplyDeltas ==
    [ddbh : {0, 300}, dht : {-200, 0, 200}, dhcb : {-4000, -100, 0, 100, 9000},
     dtph : {-5, 0, 10, 100}]

InitApply ==
    /\ pc = "apply"
    /\ stand = NoStand
    /\ \E t \in ApplyTrees, d \in ApplyDeltas :
          trees = <<[t EXCEPT !.ddbh = d.ddbh, !.dht = d.dht, !.dhcb = d.dhcb,
                              !.dtph = d.dtph]>>
    /\ run = NoRun
    /\ parms = NoParms
    /\ ghost = [NoGhost EXCEPT !.prev = trees]

Apply ==
    /\ pc = "apply"
    /\ trees' = [i \in DOMAIN trees |-> apply_growth_mortality(trees[i])]
    /\ pc' = "applied"
    /\ UNCHANGED <<stand, run, parms, ghost>>

NextApply == Apply

SpecApply == InitApply /\ [][NextApply]_vars

\* ------------------------------------- a growth run in which a step raises
\* An evaluation of the code raises nothing by itself (std::pow and std::exp
\* return a value); the handlers below decide what a raise inside their try
\* block would do.  One raise a run is followed.

\* the stands of these runs: budworm defoliation, and a recorded thinning
FailStands ==
    {STAND("NB", 1, 16000, 50, TRUE, FALSE, FALSE, FALSE, 0, 8000),
     [STAND("ME", 1, 16000, -1, FALSE, FALSE, TRUE, FALSE, 0, 8000)
         EXCEPT !.percent_ba_removed = 300, !.ba_pre_thin = 30, !.qmd_ratio = One,
                !.thin_year = 0]}

InitFail ==
    /\ pc = "ready"
    /\ stand \in FailStands
    /\ trees \in TreeLists
    /\ run = NoRun
    /\ parms \in ParmTables
    /\ ghost = [NoGhost EXCEPT !.input = trees]

\* the record of a raise in the step under way
Raised(g) == [g EXCEPT !.raised = Append(@, pc)]

\* the list when the loop over the trees is left at tree k: the trees before k
\* hold the step's result
LeftAt(old, new, k) == [i \in DOMAIN old |-> IF i < k THEN new[i] ELSE old[i]]

\* a raise in TREE::dDBH, in the equation of TREE::dHT or in
\* TREE::survival_prob: each handler up to STAND::grow throws again
StepRaise ==
    /\ pc \in {"diameter_growth", "height_growth", "survival"}
    /\ ghost.raised = <<>>
    /\ \E k \in DOMAIN trees :
          LET new == IF pc = "diameter_growth" THEN diameter_growth(trees, stand, parms)
                     ELSE IF pc = "height_growth" THEN height_growth(trees, stand, parms)
                     ELSE survival(trees, stand, parms)
          IN trees' = LeftAt(trees, new, k)
    /\ ghost' = Raised(ghost)
    /\ pc' = "exception"
    /\ UNCHANGED <<stand, run, parms>>

\* a raise in the try block of TREE::dHT_sbw for tree k: the handler prints and
\* returns, the modifier is still 1.0, and height_growth goes on
HeightGrowthSbwRaise ==
    /\ pc = "height_growth"
    /\ ghost.raised = <<>>
    /\ \E k \in DOMAIN trees :
          /\ trees[k].spp \in {12, 94, 95, 97}
          /\ stand.CDEF >= 0
          /\ trees' = [height_growth(trees, stand, parms) EXCEPT ![k].dht =
                          MulOne(MulOne(ParmOf(parms.dht, trees[k]), dHT_thin(trees[k], stand)),
                                 One)]
    /\ ghost' = Raised(Did(pc))
    /\ pc' = StepAfter(pc)
    /\ UNCHANGED <<stand, run, parms>>

\* a raise in the inner try block of TREE::dHCB for tree k: the handler prints
\* and returns; _dhcb is what it was when the equation raised, or the
\* equation's value when dHCB_thin raised, and crown_recession goes on
CrownRecessionRaise ==
    /\ pc = "crown_recession"
    /\ ghost.raised = <<>>
    /\ \E k \in DOMAIN trees :
          \E left \in {trees[k].dhcb,
                       MulOne(ParmOf(parms.dhcb, trees[k]),
                              (trees[k].ht - trees[k].hcb) + trees[k].dht)} :
              trees' = [crown_recession(trees, stand, parms) EXCEPT ![k].dhcb = left]
    /\ ghost' = Raised(Did(pc))
    /\ pc' = StepAfter(pc)
    /\ UNCHANGED <<stand, run, parms>>

\* a raise in the loop of STAND::compute_tree_statistics at tree k: the handler
\* prints and returns, the averages hold the sums over the trees before k
ComputeTreeStatisticsRaise ==
    /\ pc = "compute_tree_statistics"
    /\ ghost.raised = <<>>
    /\ \E k \in DOMAIN trees :
          LET sw == {i \in 1..(k - 1) : is_softwood(trees[i])}
              sw10 == {i \in sw : trees[i].dbh >= 10000}
          IN stand' = [stand EXCEPT
                          !.average_dbh_10_sw =
                              SumOver([i \in sw10 |-> trees[i].dbh * trees[i].tph], sw10),
                          !.average_height_sw =
                              SumOver([i \in sw |-> trees[i].ht * trees[i].tph], sw)]
    /\ ghost' = Raised(Did(pc))
    /\ pc' = StepAfter(pc)
    /\ UNCHANGED <<trees, run, parms>>

NextFail ==
    \/ GrowEnter(1..MaxYears) \/ Initialize(JitterSome) \/ LoopTest
    \/ DiameterGrowth \/ HeightGrowth \/ CrownRecession \/ Survival
    \/ ApplyGrowthMortality \/ ComputeCcf \/ ComputeBaTphBal \/ ComputeCcfl
    \/ ComputeTopht \/ ComputeTreeStatistics \/ ComputeSdiRd \/ AdvanceYear
    \/ Unexpand \/ StepRaise \/ HeightGrowthSbwRaise \/ CrownRecessionRaise
    \/ ComputeTreeStatisticsRaise

SpecFail == InitFail /\ [][NextFail]_vars

\* ----------------------------- a thinned stand that is grown with ingrowth
\* a balsam fir record of 120 trees/ha, alone and beside a red maple of 50
RegrowLists ==
    {<<TREE(1, 1, 12, 10000, 8000, 120, 600, 1, 1)>>,
     <<TREE(1, 1, 12, 10000, 8000, 120, 600, 1, 1),
       TREE(1, 2, 316, 12000, 10000, 50, 500, 1, 1)>>}

\* the stand of FailStands with the thinning modifiers, and ingrowth enabled
InitRegrow ==
    /\ pc = "ready"
    /\ stand = [STAND("ME", 1, 16000, -1, FALSE, FALSE, TRUE, TRUE, 0, 8000)
                   EXCEPT !.percent_ba_removed = 300, !.ba_pre_thin = 30,
                          !.qmd_ratio = One, !.thin_year = 0]
    /\ trees \in RegrowLists
    /\ run = NoRun
    /\ parms \in ParmTables
    /\ ghost = [NoGhost EXCEPT !.input = trees]

\* one draw of the generator is followed for every copy
NextRegrow ==
    \/ GrowEnter({1, 2}) \/ Initialize({<<JitterMax, -JitterMax>>}) \/ Year
    \/ Unexpand

SpecRegrow == InitRegrow /\ [][NextRegrow]_vars

\* --------------------------------------- the species of a constructed TREE
\* longest tree list the species specification ingests
MaxSpeciesTrees == 3

\* species_map: the species table, code -> SPP_ID (spp_index, softwood).  The
\* table is not part of the sources; these entries stand for it: species with
\* an index of their own, species whose index is the sentinel -1, and the two
\* "other" species.
species_map ==
    [c \in {12, 97, 316, 9990, 9991, 94, 379, 130} |->
        IF c = 12 THEN [spp_index |-> 0, spp_code |-> "BF", softwood |-> TRUE]
        ELSE IF c = 97 THEN [spp_index |-> 1, spp_code |-> "RS", softwood |-> TRUE]
        ELSE IF c = 316 THEN [spp_index |-> 2, spp_code |-> "RM", softwood |-> FALSE]
        ELSE IF c = 9990 THEN [spp_index |-> 3, spp_code |-> "OH", softwood |-> FALSE]
        ELSE IF c = 9991 THEN [spp_index |-> 4, spp_code |-> "OS", softwood |-> TRUE]
        ELSE IF c = 94 THEN [spp_index |-> -1, spp_code |-> "WS", softwood |-> TRUE]
        ELSE IF c = 379 THEN [spp_index |-> -1, spp_code |-> "GB", softwood |-> FALSE]
        ELSE [spp_index |-> -1, spp_code |-> "SP", softwood |-> TRUE]]

\* species_crosswalk: code -> SPP_CROSSWALK::mapped_code.  Stand-in entries:
\* a donor for a species of the table (94, 379), a substitute for a code the
\* table does not hold (10, 300), and a target the table does not hold (999).
species_crosswalk ==
    [c \in {94, 379, 10, 300, 999} |->
        IF c = 94 THEN 97
        ELSE IF c = 379 THEN 316
        ELSE IF c = 10 THEN 12
        ELSE IF c = 300 THEN 9990
        ELSE 998]

\* the codes a caller passes: every entry of either table and a code of neither
SpeciesCodes == DOMAIN species_map \cup DOMAIN species_crosswalk \cup {1}

\* std::out_of_range of unordered_map::at
OutOfRange == [thrown |-> "out_of_range"]

\* if( species_index == -1 ) taken for every index
SentinelIndexNever(species_index) == FALSE

\* if( species_index == -1 )
SentinelIndex(species_index) == species_index = -1

\* the try block of TREE::TREE: species_id and species_index of a code, or the
\* exception that an at() of the block throws
ResolveSpecies(spp_t) ==
    IF spp_t \in DOMAIN species_map
    THEN LET species_id == species_map[spp_t] IN
         IF SentinelIndex(species_id.spp_index)
         THEN IF spp_t \notin DOMAIN species_crosswalk
              THEN OutOfRange
              ELSE IF species_crosswalk[spp_t] \notin DOMAIN species_map
              THEN OutOfRange
              ELSE [thrown |-> "none", species_id |-> species_id,
                    species_index |-> species_map[species_crosswalk[spp_t]].spp_index]
         ELSE [thrown |-> "none", species_id |-> species_id,
               species_index |-> species_id.spp_index]
    ELSE IF spp_t \notin DOMAIN species_crosswalk
    THEN OutOfRange
    ELSE LET cw_spp == species_crosswalk[spp_t] IN
         IF cw_spp \notin DOMAIN species_map
         THEN OutOfRange
         ELSE [thrown |-> "none", species_id |-> species_map[cw_spp],
               species_index |-> species_map[cw_spp].spp_index]

\* the caller's stand, constructed, and an empty tree list
InitSpecies ==
    /\ pc = "constructed"
    /\ stand = STAND("ME", 1, 16000, -1, FALSE, FALSE, FALSE, FALSE, 0, 8000)
    /\ trees = <<>>
    /\ run = NoRun
    /\ parms = NoParms
    /\ ghost = NoGhost

\* TREE t( .. ); s.trees.emplace_back( t ) of the caller's loop: the
\* constructor throws again what its try block caught, and the emplace_back
\* of that record is not reached
TreeCtor ==
    /\ pc = "constructed"
    /\ Len(trees) < MaxSpeciesTrees
    /\ \E spp_t \in SpeciesCodes :
        LET r == ResolveSpecies(spp_t)
            t == TREE(1, Len(trees) + 1, spp_t, 10000, 8000, 40, 600, 1, 1)
        IN /\ ghost' = [ghost EXCEPT !.args = <<spp_t>>, !.prev = trees]
           /\ IF r.thrown = "none"
              THEN /\ trees' = Append(trees, t @@ [species_id |-> r.species_id,
                                                   species_index |-> r.species_index])
                   /\ pc' = "constructed"
              ELSE /\ pc' = r.thrown
                   /\ UNCHANGED trees
    /\ UNCHANGED <<stand, run, parms>>

NextSpecies == TreeCtor

SpecSpecies == InitSpecies /\ [][NextSpecies]_vars

\* ------------------------------------- STAND::compute_sdi_rd on any values
\* sdi / SDImax: a quotient of doubles, infinite for a ceiling of 0
RelativeDensity(sdi, ceiling) ==
    IF ceiling = 0 THEN [finite |-> FALSE, value |-> 0]
    ELSE [finite |-> TRUE, value |-> (sdi * One) \div ceiling]

\* SDImax = SDImax > 0.0 ? SDImax2 : SDImax (trees with dbh >= 10 cm)
Ceiling10(SDImax, SDImax2) == IF SDImax > 0 THEN SDImax2 ELSE SDImax

\* SDImax_all = SDImax_all > 0.0 ? SDImax_all : SDImax2 (all trees)
CeilingAll(SDImax_all, SDImax2) == IF SDImax_all > 0 THEN SDImax_all ELSE SDImax2

\* STAND::compute_sdi_rd, given the values of its three regressions
compute_sdi_rd(st, SDImax, SDImax_all, SDImax2) ==
    [st EXCEPT !.rd_10 = RelativeDensity(st.sdi_10, Ceiling10(SDImax, SDImax2)),
               !.rd = RelativeDensity(st.sdi, CeilingAll(SDImax_all, SDImax2))]

\* the values the regressions of Weiskittel & Kuehne may take: the one of the
\* trees >= 10 cm reads min_dbh_10, which no statement writes, and both read
\* the species' specific gravities; positive, zero and negative values stand
\* for them
RegressionValues == {-200, 0, 450, 600}
FallbackValues == {-50, 300, 544}

\* a stand whose statistics are computed: <<sdi, sdi_10>>
InitSdi ==
    /\ pc = "compute_sdi_rd"
    /\ \E s \in {<<400, 300>>, <<250, 250>>} :
          stand = [sdi |-> s[1], sdi_10 |-> s[2],
                   rd |-> RelativeDensity(0, One), rd_10 |-> RelativeDensity(0, One)]
    /\ trees = <<>>
    /\ run = NoRun
    /\ parms = NoParms
    /\ \E SDImax \in RegressionValues, SDImax_all \in RegressionValues,
          SDImax2 \in FallbackValues :
          ghost = [NoGhost EXCEPT !.args = <<SDImax, SDImax_all, SDImax2>>]

SdiRd ==
    /\ pc = "compute_sdi_rd"
    /\ stand' = compute_sdi_rd(stand, ghost.args[1], ghost.args[2], ghost.args[3])
    /\ pc' = "year"
    /\ UNCHANGED <<trees, run, parms, ghost>>

NextSdi == SdiRd

SpecSdi == InitSdi /\ [][NextSdi]_vars

\* ------------------------------------------ a STAND that is grown again
MaxCalls == 2           \* the largest number of calls of grow on one STAND

\* a balsam fir record of 120 trees/ha, alone and beside a larger red maple
AgainLists ==
    {<<TREE(1, 1, 12, 10000, 8000, 120, 600, 1, 1)>>,
     <<TREE(1, 1, 12, 10000, 8000, 120, 600, 1, 1),
       TREE(1, 2, 316, 12000, 10000, 30, 500, 1, 1)>>}

\* a stand without modifiers, with ingrowth disabled or enabled
InitAgain ==
    /\ pc = "ready"
    /\ \E ing \in BOOLEAN :
          stand = STAND("ME", 1, 16000, -1, FALSE, FALSE, FALSE, ing, 0, 8000)
    /\ trees \in AgainLists
    /\ run = NoRun
    /\ parms \in ParmTables
    /\ ghost = [NoGhost EXCEPT !.input = trees]

\* s.grow( periods ) on the STAND a call of grow has returned from: initialized
\* is true, so if( !initialized ) initialize() is passed over
GrowAgain(N) ==
    /\ pc = "done"
    /\ ghost.collapsed < MaxCalls
    /\ \E n \in N : run' = [n_years |-> n, i |-> 0]
    /\ pc' = IF stand.initialized THEN "loop" ELSE "initialize"
    /\ UNCHANGED <<stand, trees, parms, ghost>>

NextAgain ==
    \/ GrowEnter({1}) \/ Initialize({<<JitterMax, -JitterMax>>}) \/ Year
    \/ Unexpand \/ GrowAgain({1})

SpecAgain == InitAgain /\ [][NextAgain]_vars

\* ------------------------------------------------------------ properties
Abs(x) == IF x < 0 THEN -x ELSE x

\* grow has returned to the caller
Returned == pc = "done"

\* the record of the returned list that carries the ids of the ingested one
SameIds(a, b) == a.plot_id = b.plot_id /\ a.tree_id = b.tree_id

\* a returned record matches an ingested one: its density and crown ratio are
\* the same, its dbh and height within tol thousandths
Restored(a, b, tol) ==
    /\ SameIds(a, b)
    /\ Abs(a.dbh - b.dbh) <= tol
    /\ Abs(a.ht - b.ht) <= tol
    /\ Abs(a.cr - b.cr) <= 1
    /\ a.tph = b.tph

RoundTrip(tol) ==
    Returned /\ run.n_years = 0 =>
        /\ Len(trees) = Len(ghost.input)
        /\ \A i \in DOMAIN ghost.input :
              \E j \in DOMAIN trees : Restored(trees[j], ghost.input[i], tol)

\* C4: a list of records with unique ids and positive density, height and crown
\* ratio that is expanded and collapsed by grow(0) comes back with the same
\* number of records, and each record with the same dbh, height, crown ratio
\* and density, within the rounding of one thousandth
C4_RoundTripExact == RoundTrip(1)

\* C4: as amended, a list of records with unique ids and positive density,
\* height and crown ratio that is expanded and collapsed by grow(0) comes back
\* with the same number of records, each with the same density and crown ratio,
\* and with a dbh and a height within the jitter of 0.005 of the ingested ones
C4_RoundTripJitter == RoundTrip(JitterMax)

\* a record above the threshold came back with a dbh the jitter has moved
C4_Witness ==
    /\ Returned
    /\ run.n_years = 0
    /\ \E i \in DOMAIN ghost.input :
          /\ ghost.input[i].tph > ExpandThreshold
          /\ \E j \in DOMAIN trees :
                /\ SameIds(trees[j], ghost.input[i])
                /\ trees[j].dbh # ghost.input[i].dbh

\* the year's increments have just been applied
Applied == pc = "compute_ccf"

\* C5: with ingrowth disabled, whatever the modifier flags, the thinning data
\* and CDEF, applying a year's growth and mortality leaves no record with a
\* density above the one it had before the year, and none with a negative one
C5_DensityMonotone ==
    Applied /\ ~stand.use_ingrowth =>
        \A i \in DOMAIN trees :
            /\ trees[i].tph <= ghost.prev[i].tph
            /\ trees[i].tph >= 0

Rejected == pc = "invalid_argument"

\* the constructor has been called
Called == pc # "start" /\ ghost.args # <<>>

\* C7: the constructor throws invalid_argument when the region is neither "ME"
\* nor "NB" or the site index is not positive, and then no tree is ingested and
\* no growth is run; with a recognized region and a positive site index the
\* construction succeeds
C7_ConstructionGuard ==
    Called =>
        LET bad == ghost.args[1] \notin {"ME", "NB"} \/ ghost.args[2] <= 0
        IN /\ Rejected <=> bad
           /\ Rejected => stand = NoStand /\ trees = <<>> /\ run = NoRun /\ ~ENABLED Next
           /\ ~bad => stand.Region = ghost.args[1] /\ stand.csi = ghost.args[2]

\* a recognized region with a site index that is not positive was rejected
C7_Witness == Rejected /\ ghost.args[1] = "ME" /\ ghost.args[2] <= 0

\* the basal area a list holds of a species key in a plot
PlotSppBa(ts, plot, key) ==
    SumOver([i \in DOMAIN ts |->
                IF ts[i].plot_id = plot /\ SppKey(ts[i]) = key THEN ts[i].ba ELSE 0],
            DOMAIN ts)

\* the records ingrowth_composition has appended to the list it was given
IngrowthRecords == SubSeq(trees, Len(ghost.prev) + 1, Len(trees))

\* the (plot, species key) pairs of the list
PairsOf(ts) == {<<ts[i].plot_id, SppKey(ts[i])>> : i \in DOMAIN ts}

\* C8: ingrowth_composition appends exactly one record for every (plot, species
\* key) pair of which the plot holds a positive basal area, and none for any
\* other pair; a new record has dbh = MinDBH, ht = 0, cr = 0 and a positive
\* density
C8_IngrowthRecords ==
    pc = "initialize_ingrowth" =>
        LET new == IngrowthRecords
        IN /\ SubSeq(trees, 1, Len(ghost.prev)) = ghost.prev
           /\ \A pr \in PairsOf(ghost.prev) :
                 PlotSppBa(ghost.prev, pr[1], pr[2]) > 0 =>
                     Cardinality({i \in DOMAIN new :
                                     new[i].plot_id = pr[1] /\ new[i].spp = pr[2]}) = 1
           /\ \A i \in DOMAIN new :
                 /\ PlotSppBa(ghost.prev, new[i].plot_id, new[i].spp) > 0
                 /\ new[i].dbh = stand.MinDBH
                 /\ new[i].ht = 0
                 /\ new[i].cr = 0
                 /\ new[i].tph > 0

\* no modifier flag is set and ingrowth is disabled
FlagsOff ==
    /\ ~stand.use_sbw_mod
    /\ ~stand.use_hw_mod
    /\ ~stand.use_thin_mod
    /\ ~stand.use_ingrowth

YearSteps ==
    <<"diameter_growth", "height_growth", "crown_recession", "survival",
      "apply_growth_mortality", "compute_ccf", "compute_ba_tph_bal", "compute_ccfl",
      "compute_topht", "compute_tree_statistics", "compute_sdi_rd", "year">>

StepsOfYear == IF stand.use_ingrowth THEN <<"ingrowth">> \o YearSteps ELSE YearSteps

InYear == pc \notin {"start", "invalid_argument", "constructed", "ready", "initialize",
                     "runtime_error"}

\* C10: a year runs, once each and in this order, ingrowth (when enabled),
\* diameter growth, height growth, crown recession, survival, the application of
\* the increments, CCF, BAL, CCFL, top height, the tree statistics, SDI/RD and
\* the advance of the year; the application follows the four increments of
\* every tree, and crown recession uses the height increment of the same year
C10_YearOrder ==
    InYear =>
        /\ Len(ghost.trace) <= Len(StepsOfYear)
        /\ ghost.trace = SubSeq(StepsOfYear, 1, Len(ghost.trace))
        /\ pc = "loop" /\ run.i > 0 => ghost.trace = StepsOfYear
        /\ stand.year = 1 + run.i
        /\ pc = "survival" =>
              \A i \in DOMAIN trees :
                  /\ trees[i].dht = dHT(trees[i], stand, parms)
                  /\ trees[i].dhcb = dHCB(trees[i], stand, parms)

\* a second year has run all its steps to the end over trees that are alive
C10_Witness ==
    /\ pc = "loop"
    /\ run.i = 2
    /\ ghost.trace = StepsOfYear
    /\ \E i \in DOMAIN trees : trees[i].ht > 0 /\ trees[i].tph > 0

\* C11: a grow(n) that returns has run exactly n yearly iterations, leaves year
\* at the starting year plus n, and has collapsed the list exactly once, after
\* the last iteration (also for n = 0) and never between two years
C11_GrowYears ==
    /\ Returned => /\ run.i = run.n_years
                   /\ stand.year = 1 + run.n_years
                   /\ ghost.collapsed = 1
    /\ ~Returned => ghost.collapsed = 0
    /\ pc = "unexpand" => run.i = run.n_years

\* a grow of two years or more has returned
C11_Witness == Returned /\ run.n_years >= 2 /\ stand.year = 1 + run.n_years

UniqueIds(ts) == \A i, j \in DOMAIN ts : i # j => ~SameIds(ts[i], ts[j])

\* C13: after a grow that returns, on input records with unique (plot id,
\* tree id), every record of the list is a true record: its expand id is 0, its
\* density is positive, and no two records share a (plot id, tree id)
C13_TrueRecords ==
    Returned /\ UniqueIds(ghost.input) =>
        /\ \A i \in DOMAIN trees : trees[i].expand_tree_id = 0 /\ trees[i].tph > 0
        /\ UniqueIds(trees)

\* the constructor was called with the code and produced the list's last record
Constructed(code) ==
    /\ ghost.args = <<code>> /\ pc = "constructed"
    /\ Len(trees) = Len(ghost.prev) + 1

\* the constructor was called with the code and threw not-found
NotFound(code) == ghost.args = <<code>> /\ pc = "out_of_range"

\* C14: the constructor resolves a species code in this order: a code of the
\* species table gets its entry, and the index of the crosswalk's donor when
\* the entry's index is -1; a code absent from the species table gets the
\* entry of the crosswalk's substitute; a code of neither table, or one whose
\* crosswalk target is not in the species table, fails with not-found and
\* adds no TREE
C14_SpeciesResolution ==
    \A code \in SpeciesCodes :
        LET in_map == code \in DOMAIN species_map
            in_cw == code \in DOMAIN species_crosswalk
            target_in_map == in_cw /\ species_crosswalk[code] \in DOMAIN species_map
            last == trees[Len(trees)]
        IN /\ in_map /\ species_map[code].spp_index # -1 =>
                /\ ~NotFound(code)
                /\ Constructed(code) =>
                    /\ last.species_id = species_map[code]
                    /\ last.species_index = species_map[code].spp_index
           /\ in_map /\ species_map[code].spp_index = -1 /\ target_in_map =>
                /\ ~NotFound(code)
                /\ Constructed(code) =>
                    /\ last.species_id = species_map[code]
                    /\ last.species_index =
                           species_map[species_crosswalk[code]].spp_index
           /\ ~in_map /\ target_in_map =>
                /\ ~NotFound(code)
                /\ Constructed(code) =>
                    /\ last.species_id = species_map[species_crosswalk[code]]
                    /\ last.species_index =
                           species_map[species_crosswalk[code]].spp_index
           /\ (~in_map /\ ~in_cw) \/ (in_cw /\ ~target_in_map) =>
                /\ ~Constructed(code)
                /\ NotFound(code) => trees = ghost.prev
                /\ \A i \in DOMAIN trees : trees[i].spp # code

\* a record that took its donor's index, a record that took its substitute's
\* entry, and then a failed construction
C14_Witness ==
    /\ NotFound(1)
    /\ \E j, k \in DOMAIN trees :
        /\ trees[j].spp = 94 /\ trees[j].species_index = 1
        /\ trees[k].spp = 10 /\ trees[k].species_id.spp_code = "BF"

\* floor(d/50) and the remainder d - 50*floor(d/50) of a density
FullShares(d) == d \div ExpandThreshold
RestShare(d) == d - ExpandThreshold * FullShares(d)

\* the number of records the expansion adds for a record of density d
AddedFor(d) ==
    IF d > ExpandThreshold
    THEN FullShares(d) - 1 + (IF RestShare(d) > 0 THEN 1 ELSE 0)
    ELSE 0

\* the position before the first record added for the i-th record of a list
AddedBefore(ts, i) ==
    Len(ts) + SumOver([k \in 1..(i - 1) |-> AddedFor(ts[k].tph)], 1..(i - 1))

\* the records of a list that carry the (plot id, tree id) of t
GroupWith(ts, t) == {k \in DOMAIN ts : SameIds(ts[k], t)}

\* C15: when the expansion at 50 trees/ha has run, for every record of
\* density d > 50 of the list it found, the list holds floor(d/50) - 1 added
\* copies of density 50 with expand ids 1, 2, ..., one more added record with
\* the remainder of d when that is positive, and the record itself with
\* density 50 and the next expand id; the expand ids of its (plot id, tree id)
\* group are positive and pairwise different and the group's densities sum to
\* d; a record of density <= 50 keeps its density and its expand id
C15_Expansion ==
    LET before == ghost.unexpanded IN
    before # <<>> =>
        /\ Len(trees) = AddedBefore(before, Len(before) + 1)
        /\ \A i \in DOMAIN before :
            LET d == before[i].tph
                b == AddedBefore(before, i)
                g == GroupWith(trees, before[i])
            IN /\ d <= ExpandThreshold =>
                    /\ trees[i].tph = d
                    /\ trees[i].expand_tree_id = before[i].expand_tree_id
               /\ d > ExpandThreshold =>
                    /\ \A j \in 1..(FullShares(d) - 1) :
                          /\ SameIds(trees[b + j], before[i])
                          /\ trees[b + j].tph = ExpandThreshold
                          /\ trees[b + j].expand_tree_id = j
                    /\ RestShare(d) > 0 =>
                          /\ SameIds(trees[b + FullShares(d)], before[i])
                          /\ trees[b + FullShares(d)].tph = RestShare(d)
                          /\ trees[b + FullShares(d)].expand_tree_id = FullShares(d)
                    /\ trees[i].tph = ExpandThreshold
                    /\ trees[i].expand_tree_id = AddedFor(d) + 1
                    /\ \A k \in g : trees[k].expand_tree_id > 0
                    /\ \A k, l \in g :
                          k # l => trees[k].expand_tree_id # trees[l].expand_tree_id
                    /\ SumOver([k \in g |-> trees[k].tph], g) = d

\* the expanded records of a list that carry the (plot id, tree id) of t
Members(ts, t) == {k \in GroupWith(ts, t) : ts[k].expand_tree_id > 0}

\* x is the mean of the values f over the records M weighted by w, as close
\* as the fixed point allows
WeightedMean(x, f, w, M) ==
    Abs(x * SumOver(w, M) - SumOver([k \in M |-> f[k] * w[k]], M)) < SumOver(w, M)

\* C16: when the collapse has run, every (plot id, tree id) group of expanded
\* records with a positive total density has left exactly one record: its
\* density is the group's sum, its dbh, ht, hcb and cr are the means of the
\* members weighted by density, its expand id is 0; no other member and no
\* record of density zero is left, and a record that was never expanded and
\* has a positive density is in the list unchanged
C16_Collapse ==
    LET before == ghost.prev IN
    Returned =>
        /\ \A i \in DOMAIN before :
            LET M == Members(before, before[i])
                w == [k \in DOMAIN before |-> before[k].tph]
                S == GroupWith(trees, before[i])
            IN /\ before[i].expand_tree_id > 0 /\ SumOver(w, M) > 0 =>
                    /\ Cardinality(S) = 1
                    /\ \A j \in S :
                        /\ trees[j].tph = SumOver(w, M)
                        /\ trees[j].expand_tree_id = 0
                        /\ WeightedMean(trees[j].dbh,
                               [k \in DOMAIN before |-> before[k].dbh], w, M)
                        /\ WeightedMean(trees[j].ht,
                               [k \in DOMAIN before |-> before[k].ht], w, M)
                        /\ WeightedMean(trees[j].hcb,
                               [k \in DOMAIN before |-> before[k].hcb], w, M)
                        /\ WeightedMean(trees[j].cr,
                               [k \in DOMAIN before |-> before[k].cr], w, M)
               /\ before[i].expand_tree_id > 0 /\ SumOver(w, M) = 0 => S = {}
               /\ before[i].expand_tree_id = 0 /\ before[i].tph > 0 =>
                    \E j \in DOMAIN trees : trees[j] = before[i]
               /\ before[i].expand_tree_id = 0 /\ before[i].tph = 0 => S = {}
        /\ \A j \in DOMAIN trees : trees[j].tph # 0

\* the probabilities of survival of the year have just been computed
SurvivalComputed == pc = "apply_growth_mortality"

\* C17: whatever modifiers are enabled, the survival probability that
\* survival_prob leaves in a tree is no larger than the unmodified probability
\* of the tree's coefficients, and lies in [0, 1]
C17_SurvivalDegrades ==
    SurvivalComputed =>
        \A i \in DOMAIN trees :
            /\ trees[i].p_survival <= ParmOf(parms.surv, trees[i])
            /\ trees[i].p_survival >= 0
            /\ trees[i].p_survival <= One

\* grow is between two statements of its own: initialize has run, or a year
\* has ended, or the collapse has run
AtRest == pc \in {"loop", "done"}

\* cr is (ht - hcb)/ht within the resolution of the fixed point: one
\* thousandth of cr and one thousandth of a metre each in ht and hcb
CrownRatioOf(t) == Abs(t.cr * t.ht - (t.ht - t.hcb) * One) <= t.ht + 2 * One

\* C18: after initialize, after every year and after the collapse, every
\* record with a positive height, expanded copies and collapsed records
\* included, has hcb <= ht and cr = (ht - hcb)/ht up to rounding
C18_CrownInvariant ==
    AtRest =>
        \A i \in DOMAIN trees :
            trees[i].ht > 0 => trees[i].hcb <= trees[i].ht /\ CrownRatioOf(trees[i])

\* the trees of the list of one subtype whose dbh is strictly greater than d
AboveOf(ts, d, softwood) ==
    {i \in DOMAIN ts : ts[i].dbh > d /\ is_softwood(ts[i]) = softwood}

\* C19: after compute_ba_tph_bal every tree, softwood or hardwood, has as
\* bal_sw the basal area of the softwoods of strictly greater dbh and as bal_hw
\* that of the hardwoods of strictly greater dbh; after compute_ccfl the same
\* holds of ccfl_sw and ccfl_hw with the maximum crown area
C19_SubtypeTotals ==
    /\ pc \in {"bal", "ccfl", "topht"} =>
          \A i \in DOMAIN trees :
              /\ trees[i].bal_sw =
                     SumOver([k \in DOMAIN trees |-> trees[k].ba],
                             AboveOf(trees, trees[i].dbh, TRUE))
              /\ trees[i].bal_hw =
                     SumOver([k \in DOMAIN trees |-> trees[k].ba],
                             AboveOf(trees, trees[i].dbh, FALSE))
    /\ pc \in {"ccfl", "topht"} =>
          \A i \in DOMAIN trees :
              /\ trees[i].ccfl_sw =
                     SumOver([k \in DOMAIN trees |-> trees[k].mca],
                             AboveOf(trees, trees[i].dbh, TRUE))
              /\ trees[i].ccfl_hw =
                     SumOver([k \in DOMAIN trees |-> trees[k].mca],
                             AboveOf(trees, trees[i].dbh, FALSE))

\* the one-to-one maps of the positions of a list: its rearrangements
Rearrangements(n) == {p \in [1..n -> 1..n] : \A i, j \in 1..n : p[i] = p[j] => i = j}

\* the list with its records in the order p
Permuted(ts, p) == [i \in DOMAIN ts |-> ts[p[i]]]

\* C20: the outcome of the statistics pass does not depend on the order of the
\* list: for every rearrangement of the list and every ranking of it, tied
\* records in either order, the passes give each tree the bal, bal_sw, bal_hw,
\* ccfl, ccfl_sw and ccfl_hw it carries and the stand the ba, tph and topht it
\* carries
C20_OrderIndependent ==
    \A p \in Rearrangements(Len(trees)) :
        LET ts == Permuted(trees, p) IN
        /\ pc \in {"bal", "ccfl", "topht"} =>
              \A o \in sort_indices(ts, TRUE) :
                  LET r == compute_ba_tph_bal(ts, stand, o)
                  IN /\ r.stand.ba = stand.ba /\ r.stand.tph = stand.tph
                     /\ \A i \in DOMAIN ts :
                           /\ r.trees[i].bal = ts[i].bal
                           /\ r.trees[i].bal_sw = ts[i].bal_sw
                           /\ r.trees[i].bal_hw = ts[i].bal_hw
        /\ pc \in {"ccfl", "topht"} =>
              \A o \in sort_indices(ts, TRUE) :
                  LET r == compute_ccfl(ts, o)
                  IN \A i \in DOMAIN ts :
                        /\ r.trees[i].ccfl = ts[i].ccfl
                        /\ r.trees[i].ccfl_sw = ts[i].ccfl_sw
                        /\ r.trees[i].ccfl_hw = ts[i].ccfl_hw
        /\ pc = "topht" =>
              \A o \in sort_indices(ts, FALSE) : compute_topht(ts, o) = stand.topht

\* C21: after compute_sdi_rd, for the trees >= 10 cm and for all trees, the
\* relative density is the stand density index over the primary regression
\* value when that value is positive and over the fallback value when it is
\* not
C21_DensityCeiling ==
    pc = "year" /\ Len(ghost.args) = 3 =>
        LET SDImax == ghost.args[1]
            SDImax_all == ghost.args[2]
            SDImax2 == ghost.args[3]
        IN /\ SDImax > 0 => stand.rd_10 = RelativeDensity(stand.sdi_10, SDImax)
           /\ SDImax <= 0 => stand.rd_10 = RelativeDensity(stand.sdi_10, SDImax2)
           /\ SDImax_all > 0 => stand.rd = RelativeDensity(stand.sdi, SDImax_all)
           /\ SDImax_all <= 0 => stand.rd = RelativeDensity(stand.sdi, SDImax2)

\* the increments and the survival of a record hold their neutral values
Neutral(t) ==
    t.ddbh = 0 /\ t.dht = 0 /\ t.dhcb = 0 /\ t.dtph = 0 /\ t.p_survival = One

\* C22: at the start of every year, when the increments of a year have just
\* been applied, and after grow has returned, every record - ingested,
\* expanded copy or ingrowth record - has diameter, height, crown-base and
\* density increments of 0 and a survival probability of 1
C22_DeltasReset ==
    pc \in {"loop", "ingrowth", "diameter_growth", "compute_ccf", "unexpand", "done"} =>
        \A i \in DOMAIN trees : Neutral(trees[i])

\* a second year starts on a list with an expanded copy and an ingrowth
\* record, after a year whose diameter increments were positive and applied
C22_Witness ==
    /\ pc = "loop" /\ run.i = 1 /\ run.n_years >= 2
    /\ ghost.trace = StepsOfYear
    /\ \E i, j \in DOMAIN trees :
          /\ trees[i].expand_tree_id > 0
          /\ \A k \in DOMAIN ghost.input : ~SameIds(trees[j], ghost.input[k])
    /\ \E i \in DOMAIN ghost.prev :
          trees[i].dbh > ghost.prev[i].dbh /\ Neutral(trees[i])

\* the density of the records ingrowth_composition has appended
IngrowthDensity ==
    SumOver([i \in DOMAIN IngrowthRecords |-> IngrowthRecords[i].tph],
            DOMAIN IngrowthRecords)

\* C23: when ingrowth_composition has run for a positive IPH, in the first
\* year or a later one, the densities of the records it has appended sum to
\* IPH, up to the rounding of one tree per species group and per record
C23_IngrowthTotal ==
    pc = "initialize_ingrowth" =>
        LET IPH == ingrowth(stand)
            slack == Cardinality(DOMAIN stand.ba_grp_spp) + Len(IngrowthRecords)
        IN /\ IPH > 0
           /\ IngrowthDensity <= IPH
           /\ IPH - IngrowthDensity < slack

\* the allocation of a second year over two species groups has run
C23_Witness ==
    /\ pc = "initialize_ingrowth" /\ run.i >= 1
    /\ Cardinality(DOMAIN stand.ba_grp_spp) >= 2
    /\ Len(IngrowthRecords) >= 2
    /\ IngrowthDensity > 0

\* two records are copies of one record: same plot, tree id and species, and
\* while the list is in expanded form both carrying an expand id
CopiesOfOne(a, b) ==
    /\ SameIds(a, b) /\ a.spp = b.spp
    /\ pc # "done" => a.expand_tree_id > 0 /\ b.expand_tree_id > 0

\* C24: on input records with unique tree ids, a record ingrowth_composition
\* appends has a tree id above that of every record before it in the list, and
\* at any point of a run two records share a tree id only as copies of one record
C24_FreshIds ==
    (\A i, j \in DOMAIN ghost.input :
        i # j => ghost.input[i].tree_id # ghost.input[j].tree_id) =>
        /\ pc = "initialize_ingrowth" =>
              \A k \in (Len(ghost.prev) + 1)..Len(trees) :
                  \A i \in 1..(k - 1) : trees[i].tree_id < trees[k].tree_id
        /\ \A i, j \in DOMAIN trees :
              i # j /\ trees[i].tree_id = trees[j].tree_id =>
                  CopiesOfOne(trees[i], trees[j])

\* the ingrowth of a second year has appended two records to a list that holds
\* a record of the first year's ingrowth
C24_Witness ==
    /\ pc = "initialize_ingrowth" /\ run.i >= 1
    /\ Len(trees) >= Len(ghost.prev) + 2
    /\ \E i \in DOMAIN ghost.prev :
          \A k \in DOMAIN ghost.input : ghost.prev[i].tree_id # ghost.input[k].tree_id

\* the basal area the records of ts hold under key k of the keys given
BaUnder(ts, keys, k) ==
    LET S == {i \in DOMAIN ts : keys[i] = k}
    IN SumOver([i \in S |-> ts[i].ba], S)

\* C25: when ingrowth has been allocated, in the first year or a later one,
\* every entry of the species, species-group and plot-by-species maps equals
\* the basal area the list the allocation was given holds for that key
C25_MapsRebuilt ==
    pc = "initialize_ingrowth" =>
        LET ts == ghost.prev
        IN /\ \A k \in DOMAIN stand.ba_spp :
                 stand.ba_spp[k] = BaUnder(ts, [i \in DOMAIN ts |-> SppKey(ts[i])], k)
           /\ \A k \in DOMAIN stand.ba_grp_spp :
                 stand.ba_grp_spp[k] =
                     BaUnder(ts, [i \in DOMAIN ts |-> GrpKey(ts[i])], k)
           /\ \A k \in DOMAIN stand.plot_species_ba :
                 stand.plot_species_ba[k] =
                     BaUnder(ts, [i \in DOMAIN ts |-> PlotSppKey(ts[i])], k)

\* C26: after the initialize of a grow call, and at the start of the growth
\* steps of every year of it, every record's density is at most the expansion
\* threshold of 50 trees/ha
C26_DensityThreshold ==
    \/ pc = "diameter_growth"
    \/ pc = "loop" /\ run.i = 0 /\ ghost.collapsed = 0
    => \A i \in DOMAIN trees : trees[i].tph <= ExpandThreshold

\* the stand with the covariates of its disabled flags taken away: no
\* defoliation when use_sbw_mod is off, no thinning event when use_thin_mod is
\* off
BlindStand(st) ==
    [st EXCEPT !.CDEF = IF st.use_sbw_mod THEN @ ELSE -1,
               !.thin_year = IF st.use_thin_mod THEN @ ELSE -1,
               !.percent_ba_removed = IF st.use_thin_mod THEN @ ELSE 0,
               !.ba_pre_thin = IF st.use_thin_mod THEN @ ELSE 0,
               !.qmd_ratio = IF st.use_thin_mod THEN @ ELSE 0]

\* the record without its form and risk codes when use_hw_mod is off
BlindTree(t, st) == IF st.use_hw_mod THEN t ELSE [t EXCEPT !.Form = 0, !.Risk = 0]

\* the diameter, height and crown increments just estimated are those of the
\* blinded stand and records
GrowthBlind ==
    /\ pc = "height_growth" =>
          \A i \in DOMAIN trees :
              trees[i].ddbh = dDBH(BlindTree(trees[i], stand), BlindStand(stand), parms)
    /\ pc = "crown_recession" =>
          \A i \in DOMAIN trees :
              trees[i].dht = dHT(BlindTree(trees[i], stand), BlindStand(stand), parms)
    /\ pc = "survival" =>
          \A i \in DOMAIN trees :
              trees[i].dhcb = dHCB(BlindTree(trees[i], stand), BlindStand(stand), parms)

\* the survival and the loss of density just estimated are those of the
\* blinded stand and records
SurvivalBlind ==
    pc = "apply_growth_mortality" =>
        LET s == survival([i \in DOMAIN trees |-> BlindTree(trees[i], stand)],
                          BlindStand(stand), parms)
        IN \A i \in DOMAIN trees :
              /\ trees[i].p_survival = s[i].p_survival
              /\ trees[i].dtph = s[i].dtph

\* C27: a disabled modifier flag makes the run independent of that modifier's
\* covariate: the increments of dbh, height and crown base and the loss of
\* density estimated in a year, from which the year's dbh, height, crown ratio
\* and density follow, are the same as for the stand without the defoliation,
\* the thinning event or the form and risk codes of its disabled flags
C27_DisabledFlags == GrowthBlind /\ SurvivalBlind

\* a statistics pass over the list would leave every record's BAL and CCFL and
\* the stand's ba, tph, ccf and topht as they are
StatisticsCurrent ==
    /\ \E order \in TieOrders(trees, TRUE) :
          LET r == compute_ba_tph_bal(trees, stand, order)
          IN r.trees = trees /\ r.stand = stand
    /\ \E order \in TieOrders(trees, TRUE) : compute_ccfl(trees, order).trees = trees
    /\ stand.ccf = compute_ccf(trees)
    /\ \E order \in TieOrders(trees, FALSE) : stand.topht = compute_topht(trees, order)

\* C28: over the calls of grow on one STAND, at the start of the growth steps
\* of every year the records' BAL and CCFL and the stand's ba, tph, ccf and
\* topht are those of a statistics pass over the list as it is, and the list is
\* in expanded form: no record above the expansion threshold
C28_CurrentAtYearStart ==
    pc = "diameter_growth" =>
        /\ StatisticsCurrent
        /\ \A i \in DOMAIN trees : trees[i].tph <= ExpandThreshold

\* the stand's ba is ba_sw + ba_hw and the sum of the records' basal areas
BaBookkeeping ==
    pc \in {"bal", "ccfl", "topht"} =>
        /\ stand.ba = stand.ba_sw + stand.ba_hw
        /\ stand.ba = SumOver([i \in DOMAIN trees |-> trees[i].ba], DOMAIN trees)

\* C29: after the statistics pass every tree has 0 <= bal_sw <= bal and
\* bal_hw >= 0, and 0 <= ccfl_sw <= ccfl and ccfl_hw >= 0, and the stand's ba
\* is ba_sw + ba_hw and the sum of the records' basal areas
C29_Bookkeeping ==
    /\ pc \in {"bal", "ccfl", "topht"} =>
          \A i \in DOMAIN trees :
              /\ 0 <= trees[i].bal_sw /\ trees[i].bal_sw <= trees[i].bal
              /\ trees[i].bal_hw >= 0
    /\ pc \in {"ccfl", "topht"} =>
          \A i \in DOMAIN trees :
              /\ 0 <= trees[i].ccfl_sw /\ trees[i].ccfl_sw <= trees[i].ccfl
              /\ trees[i].ccfl_hw >= 0
    /\ BaBookkeeping

\* record a is record b but for the derived competition fields
KeptButCompetition(a, b) ==
    [a EXCEPT !.bal = b.bal, !.bal_sw = b.bal_sw, !.bal_hw = b.bal_hw,
              !.ccfl = b.ccfl, !.ccfl_sw = b.ccfl_sw, !.ccfl_hw = b.ccfl_hw] = b

\* initialize has just run on a list to which the year's ingrowth had appended
\* records
Reinitialized ==
    /\ pc = "diameter_growth"
    /\ ghost.unexpanded # <<>>
    /\ Len(ghost.unexpanded) > Len(ghost.prev)

\* C30: when initialize has run again after an ingrowth, every record that was
\* in the list before the ingrowth is where it was with its plot id, tree id,
\* expand id, dbh, height, height to crown base, crown ratio and density, only
\* its competition fields recomputed, and no record after it is a copy of it;
\* the new records have their height and crown base imputed
C30_ExistingKept ==
    Reinitialized =>
        LET old == ghost.prev
        IN /\ Len(trees) >= Len(ghost.unexpanded)
           /\ \A i \in DOMAIN old : KeptButCompetition(trees[i], old[i])
           /\ \A k \in (Len(old) + 1)..Len(trees) :
                 \A i \in DOMAIN old : ~SameIds(trees[k], old[i])
           /\ \A k \in (Len(old) + 1)..Len(ghost.unexpanded) :
                 /\ ghost.unexpanded[k].ht = 0 /\ trees[k].ht > 0
                 /\ trees[k].hcb >= 0 /\ trees[k].hcb <= trees[k].ht

====
